---- MODULE Spec2Model ----
(***************************************************************************)
(* Verification model of the Syrion chat client.                           *)
(*                                                                         *)
(* Spec      : the canvas / edit-session coordinator of ChatMessage, the   *)
(*             Sidebar events and the App state they act on, with the      *)
(*             edit exchange of App.handleEditMessage.                     *)
(* SpecScan  : the index based fenced-block scanner and the response       *)
(*             segmenter parseAiResponse as pure functions over bounded    *)
(*             texts.                                                      *)
(*                                                                         *)
(* React is modelled at the granularity of one browser task: an event      *)
(* handler (with every listener a synchronous dispatchEvent reaches), the  *)
(* re-render it causes and the effects of that render form one action.     *)
(* Listeners read the state of the render they were subscribed in, which   *)
(* is the current state because each effect lists that state in its        *)
(* dependency array.                                                       *)
(***************************************************************************)
EXTENDS Integers, Sequences, FiniteSets, TLC

VARIABLES
  isAuthenticated,        \* App.tsx:23
  view,                   \* App.tsx:30   "chat" | "settings"
  conversations,          \* App.tsx:25   conversation id -> sequence of messages
  activeConversationId,   \* App.tsx:26
  isLoading,              \* App.tsx:27
  appCanvasWidth,         \* App.tsx:32   width the host page reserves
  globalEditingId,        \* ChatMessage  __globalEditingId
  globalActiveCanvasId,   \* ChatMessage  __globalActiveCanvasId
  comp,                   \* message id -> state of its ChatMessage component
  reqs,                   \* request number -> in-flight handleEditMessage call
  db,                     \* conversations persisted in the backend
  ev,                     \* history: the last operation and what it found
  scan,                   \* state of the scanner specification (SpecScan)
  fx,                     \* state of the file extraction (SpecFiles)
  preview,                \* state of a ReactPreview component (SpecPreview)
  exec,                   \* state of a CodeExecutor run (SpecExec)
  store,                  \* state of a saveConversation call (SpecSave)
  resize,                 \* state of a canvas panel's resize handle (SpecResize)
  relay,                  \* state of the console relay of a preview (SpecConsole)
  scanners,               \* state of the four fence scanners on one text (SpecScanners)
  input,                  \* state of the ChatInput component (SpecInput)
  quota,                  \* rate-limit row and the exchanges using it (SpecQuota)
  sends                   \* overlapping handleSendMessage calls (SpecSends)

vars == <<isAuthenticated, view, conversations, activeConversationId, isLoading,
          appCanvasWidth, globalEditingId, globalActiveCanvasId, comp, reqs, db,
          ev, scan, fx, preview, exec, store, resize, relay,
          scanners, input, quota, sends>>

uiVars == <<isAuthenticated, view, conversations, activeConversationId, isLoading,
            appCanvasWidth, globalEditingId, globalActiveCanvasId, comp, reqs, db,
            ev>>

\* the variables of the specifications of single functions and components
pureVars == <<scan, fx, preview, exec, store, resize, relay>>

\* the variables of the specifications of single flows
flowVars == <<scanners, input, quota, sends>>

\* such a variable in a specification that does not use it
Off == [pc |-> "off"]

-----------------------------------------------------------------------------
(* Bounds and program constants                                            *)

\* number of handleEditMessage calls one behaviour may start
MaxReqs == 1

\* `null` of `string | null`
Null == 0

\* useState(50) of ChatMessage.canvasWidth
DefaultWidth == 50

\* Math.max(25, Math.min(75, newWidth))
MinWidth == 25
MaxWidth == 75

\* pointer positions of a drag, in percent of the window width
PointerXs == {10}

\* texts a user message can hold; "" is an edit box emptied by the user
UserTexts == {"q", "q2"}
TypedTexts == UserTexts \cup {""}

\* texts of an AI message: the placeholder, a reply without code, a reply
\* with at least one canvas-eligible fenced block
Placeholder == "..."
AiReplies == {"plain", "code"}

UserMsg(i, t) == [id |-> i, sender |-> "user", text |-> t]
AiMsg(i, t) == [id |-> i, sender |-> "ai", text |-> t]

\* conversations the backend holds when the page is loaded
StoredConversations ==
  (1 :> <<UserMsg(1, "q"), AiMsg(2, "code"), UserMsg(3, "q"), AiMsg(4, "code")>>)
  @@ (2 :> <<UserMsg(5, "q"), AiMsg(6, "plain")>>)

ReqIds == 1..MaxReqs

\* crypto.randomUUID() of the placeholder of request r
FreshId(r) == 6 + r

\* crypto.randomUUID() of the user message and of the conversation that
\* handleSendMessage call r creates
UserId(r) == 6 + MaxReqs + r
NewConvId(r) == 2 + r

ConvIds == (1..2) \cup {NewConvId(r) : r \in ReqIds}

MsgIds == (1..6) \cup {FreshId(r) : r \in ReqIds} \cup {UserId(r) : r \in ReqIds}

-----------------------------------------------------------------------------
(* ChatMessage component state                                             *)

Unmounted ==
  [mounted |-> FALSE, isEditingLocal |-> FALSE, editText |-> "",
   globalEditingId |-> Null, showCanvas |-> FALSE, canvasWidth |-> DefaultWidth,
   globalActiveCanvas |-> Null, timer |-> FALSE,
   pText |-> "", pLoading |-> FALSE, pCanvas |-> FALSE, pWidth |-> DefaultWidth]

\* extractCodeFiles(message.text).length > 0 for an AI message
HasCanvasContent(msg) == msg.sender = "ai" /\ msg.text = "code"

\* the isLoading prop App passes to a ChatMessage
IsLoadingProp(loading, msg) ==
  loading /\ msg.sender = "ai" /\ msg.text = Placeholder

\* ids of the messages App renders
MountedIds(auth, vw, act, convs) ==
  IF auth /\ vw = "chat" /\ act # Null /\ act \in DOMAIN convs
  THEN {convs[act][i].id : i \in 1..Len(convs[act])}
  ELSE {}

MsgOf(convs, act, m) ==
  LET s == convs[act] IN s[CHOOSE i \in 1..Len(s) : s[i].id = m]

\* condition of the auto-open effect
AutoOpenGuard(msg, loadingProp, gCan) ==
  HasCanvasContent(msg) /\ ~loadingProp /\ msg.sender = "ai" /\ gCan = Null

\* useState initialisers of a ChatMessage that mounts, then its mount effects
MountState(msg, loadingProp, gEd, gCan) ==
  [mounted |-> TRUE, isEditingLocal |-> FALSE, editText |-> msg.text,
   globalEditingId |-> gEd, showCanvas |-> FALSE, canvasWidth |-> DefaultWidth,
   globalActiveCanvas |-> gCan,
   timer |-> AutoOpenGuard(msg, loadingProp, gCan),
   pText |-> msg.text, pLoading |-> loadingProp,
   pCanvas |-> HasCanvasContent(msg), pWidth |-> DefaultWidth]

\* the effects of a ChatMessage that stays mounted and is rendered again:
\* setEditText on a changed text, and the auto-open effect when one of its
\* dependencies changed (its cleanup clears the pending timer)
UpdateState(c, msg, loadingProp, gCan) ==
  LET changed == \/ c.pCanvas # HasCanvasContent(msg)
                 \/ c.pLoading # loadingProp
                 \/ c.pWidth # c.canvasWidth
      guard == AutoOpenGuard(msg, loadingProp, gCan)
  IN [c EXCEPT !.editText = IF msg.text # c.pText THEN msg.text ELSE @,
               !.timer = IF changed THEN guard ELSE @,
               !.showCanvas = IF changed /\ guard THEN FALSE ELSE @,
               !.pText = msg.text, !.pLoading = loadingProp,
               !.pCanvas = HasCanvasContent(msg), !.pWidth = c.canvasWidth]

\* one render pass of App: the list keyed by msg.id unmounts the components
\* whose id left the list, mounts the new ids and re-renders the others
Render(c, auth, vw, act, convs, loading, gEd, gCan) ==
  [m \in MsgIds |->
     IF m \notin MountedIds(auth, vw, act, convs) THEN Unmounted
     ELSE LET msg == MsgOf(convs, act, m)
              lp == IsLoadingProp(loading, msg)
          IN IF c[m].mounted THEN UpdateState(c[m], msg, lp, gCan)
             ELSE MountState(msg, lp, gEd, gCan)]

Mounted == {m \in MsgIds : comp[m].mounted}

ActiveMsg(m) == MsgOf(conversations, activeConversationId, m)

\* isThisCanvasActive && hasCanvasContent: the canvas panel of m is rendered
CanvasShown(c, m) ==
  c[m].mounted /\ c[m].globalActiveCanvas = m /\ c[m].pCanvas

Displayed == {m \in MsgIds : CanvasShown(comp, m)}

\* messages whose local canvas state is `open`
OpenCanvases == {m \in MsgIds : comp[m].mounted /\ comp[m].showCanvas}

Editing == {m \in MsgIds : comp[m].mounted /\ comp[m].isEditingLocal}

-----------------------------------------------------------------------------
(* The broadcast channel.  A coordination state is a record                *)
(*   [comp, gCan, gEd, appW]                                               *)
(* threaded through the handlers of one task.                              *)

Coord == [comp |-> comp, gCan |-> globalActiveCanvasId,
          gEd |-> globalEditingId, appW |-> appCanvasWidth]

\* a listener that records the active id but leaves its own canvas open
CanvasListenerNoClose(c, m, id) ==
  IF ~c.mounted THEN c
  ELSE [c EXCEPT !.globalActiveCanvas = id]

\* the 'canvas-state-change' listener of one ChatMessage
CanvasListener(c, m, id) ==
  IF ~c.mounted THEN c
  ELSE [c EXCEPT !.globalActiveCanvas = id,
                 !.showCanvas = IF id # Null /\ id # m /\ c.showCanvas
                                THEN FALSE ELSE @]

\* window.dispatchEvent(new CustomEvent('canvas-state-change', ...)): every
\* ChatMessage listener and App.handleCanvasChange
DispatchCanvasChange(s, isOpen, w, id) ==
  [s EXCEPT !.comp = [m \in MsgIds |-> CanvasListener(s.comp[m], m, id)],
            !.appW = IF isOpen THEN w ELSE 0]

EMIT_CANVAS_CHANGE(s, id, w) ==
  DispatchCanvasChange([s EXCEPT !.gCan = id], id # Null, w, id)

\* the 'settings-opened' and 'conversation-changed' listeners: every message
\* whose showCanvas is set clears it and emits (null, 0)
CloseShown(s) ==
  IF \E m \in MsgIds : s.comp[m].mounted /\ s.comp[m].showCanvas
  THEN EMIT_CANVAS_CHANGE(
         [s EXCEPT !.comp = [m \in MsgIds |->
                               IF s.comp[m].mounted
                               THEN [s.comp[m] EXCEPT !.showCanvas = FALSE]
                               ELSE s.comp[m]]],
         Null, 0)
  ELSE s

\* the 'chat-edit-change' listener of one ChatMessage
EditListener(c, m, id) ==
  IF ~c.mounted THEN c
  ELSE [c EXCEPT !.globalEditingId = id,
                 !.isEditingLocal = IF id # m THEN FALSE ELSE @,
                 !.editText = IF id # m /\ c.isEditingLocal THEN c.pText ELSE @]

\* EMIT_EDIT_CHANGE: each listener also stores the id in __globalEditingId
EMIT_EDIT_CHANGE(s, id) ==
  [s EXCEPT !.comp = [m \in MsgIds |-> EditListener(s.comp[m], m, id)],
            !.gEd = IF \E m \in MsgIds : s.comp[m].mounted THEN id ELSE @]

handleOpenCanvas(s, m) ==
  LET s1 == IF s.gCan # Null /\ s.gCan # m
            THEN EMIT_CANVAS_CHANGE(s, Null, 0) ELSE s
      s2 == [s1 EXCEPT !.comp[m].showCanvas = TRUE]
  IN EMIT_CANVAS_CHANGE(s2, m, s2.comp[m].canvasWidth)

handleCloseCanvas(s, m) ==
  EMIT_CANVAS_CHANGE([s EXCEPT !.comp[m].showCanvas = FALSE], Null, 0)

handleWidthChange(s, m, w) ==
  EMIT_CANVAS_CHANGE([s EXCEPT !.comp[m].canvasWidth = w], m, w)

\* callback of the 50 ms timer of the auto-open effect
AutoOpenFire(s, m) ==
  EMIT_CANVAS_CHANGE([s EXCEPT !.comp[m].showCanvas = TRUE,
                               !.comp[m].timer = FALSE],
                     m, s.comp[m].pWidth)

\* entering edit mode without the broadcast
startEditingNoEmit(s, m) ==
  [s EXCEPT !.gEd = m, !.comp[m].isEditingLocal = TRUE]

startEditing(s, m) ==
  LET s1 == EMIT_EDIT_CHANGE([s EXCEPT !.gEd = m], m)
  IN [s1 EXCEPT !.comp[m].isEditingLocal = TRUE]

stopEditing(s, m, shouldReset) ==
  LET s1 == EMIT_EDIT_CHANGE([s EXCEPT !.gEd = Null], Null)
  IN [s1 EXCEPT !.comp[m].isEditingLocal = FALSE,
                !.comp[m].editText = IF shouldReset THEN s.comp[m].pText ELSE @]

\* the width of a drag without the clamp
ClampedWidthNone(x) == 100 - x

\* clamped width of a drag with the pointer at x percent of the window
ClampedWidth(x) ==
  LET newWidth == 100 - x
      lo == IF newWidth < MaxWidth THEN newWidth ELSE MaxWidth
  IN IF lo > MinWidth THEN lo ELSE MinWidth

-----------------------------------------------------------------------------
(* Actions                                                                 *)

\* the operation just performed, the message it acted on and the canvas panels
\* that were rendered when it started; operations no property speaks of are
\* recorded as Other
Event(op, m) == [op |-> op, m |-> m, shown |-> Displayed]
Other == [op |-> "other", m |-> Null, shown |-> {}]

\* commit of one task: the coordination state s left by the handlers, the
\* App state they set, and the render that follows
Commit(s, auth, vw, act, convs, loading) ==
  /\ isAuthenticated' = auth
  /\ view' = vw
  /\ activeConversationId' = act
  /\ conversations' = convs
  /\ isLoading' = loading
  /\ appCanvasWidth' = s.appW
  /\ globalEditingId' = s.gEd
  /\ globalActiveCanvasId' = s.gCan
  /\ comp' = Render(s.comp, auth, vw, act, convs, loading, s.gEd, s.gCan)

\* a task that leaves the App state alone
CommitCoord(s) ==
  Commit(s, isAuthenticated, view, activeConversationId, conversations, isLoading)

\* a handleEditMessage call: its position and the values its closure holds
IdleReq == [phase |-> "idle", conv |-> Null, msgs |-> <<>>, prev |-> <<>>,
            msgId |-> Null, newText |-> ""]
DoneReq == [IdleReq EXCEPT !.phase = "done"]

UiInit ==
  /\ isAuthenticated = TRUE
  /\ view = "chat"
  /\ conversations = StoredConversations
  /\ activeConversationId = Null
  /\ isLoading = FALSE
  /\ appCanvasWidth = 0
  /\ globalEditingId = Null
  /\ globalActiveCanvasId = Null
  /\ comp = [m \in MsgIds |-> Unmounted]
  /\ reqs = [r \in ReqIds |-> IdleReq]
  /\ db = StoredConversations
  /\ ev = Other

Init ==
  /\ UiInit
  /\ scan = [pc |-> "off"]
  /\ fx = Off /\ preview = Off /\ exec = Off /\ store = Off /\ resize = Off /\ relay = Off
  /\ scanners = Off /\ input = Off /\ quota = Off /\ sends = Off

\* Sidebar.handleSelectConv
SelectConv(c) ==
  /\ isAuthenticated
  /\ c \in DOMAIN conversations
  /\ Commit(CloseShown(Coord), isAuthenticated, "chat", c, conversations, isLoading)
  /\ ev' = Event("select", Null)
  /\ UNCHANGED <<reqs, db, pureVars, flowVars>>

\* Sidebar.handleNewChat
NewChat ==
  /\ isAuthenticated
  /\ Commit(DispatchCanvasChange(Coord, FALSE, 0, Null),
            isAuthenticated, "chat", Null, conversations, isLoading)
  /\ ev' = Event("newchat", Null)
  /\ UNCHANGED <<reqs, db, pureVars, flowVars>>

\* Sidebar.handleSettings
OpenSettings ==
  /\ isAuthenticated
  /\ Commit(CloseShown(Coord), isAuthenticated, "settings",
            activeConversationId, conversations, isLoading)
  /\ ev' = Event("settings", Null)
  /\ UNCHANGED <<reqs, db, pureVars, flowVars>>

\* Settings onClose
CloseSettings ==
  /\ isAuthenticated
  /\ view = "settings"
  /\ Commit(Coord, isAuthenticated, "chat", activeConversationId, conversations,
            isLoading)
  /\ ev' = Other
  /\ UNCHANGED <<reqs, db, pureVars, flowVars>>

\* App.handleLogout
Logout ==
  /\ isAuthenticated
  /\ view = "settings"
  /\ Commit(Coord, FALSE, "chat", Null, <<>>, isLoading)
  /\ ev' = Event("logout", Null)
  /\ UNCHANGED <<reqs, db, pureVars, flowVars>>

\* Auth onAuthSuccess, then the effect that loads the conversations
AuthSuccess ==
  /\ ~isAuthenticated
  /\ Commit(Coord, TRUE, view, activeConversationId, db, isLoading)
  /\ ev' = Other
  /\ UNCHANGED <<reqs, db, pureVars, flowVars>>

\* App.handleDeleteConversation
DeleteConversation(c) ==
  /\ isAuthenticated
  /\ c \in DOMAIN conversations
  /\ LET rest == [d \in DOMAIN conversations \ {c} |-> conversations[d]]
     IN Commit(Coord, isAuthenticated, view,
               IF activeConversationId = c THEN Null ELSE activeConversationId,
               rest, isLoading)
  /\ db' = [d \in DOMAIN db \ {c} |-> db[d]]
  /\ ev' = Other
  /\ UNCHANGED <<reqs, pureVars, flowVars>>

\* the "open canvas" button of an AI message
OpenCanvas(m) ==
  /\ comp[m].mounted
  /\ comp[m].pCanvas /\ ~comp[m].pLoading
  /\ comp[m].globalActiveCanvas # m
  /\ CommitCoord(handleOpenCanvas(Coord, m))
  /\ ev' = Event("open", m)
  /\ UNCHANGED <<reqs, db, pureVars, flowVars>>

\* onClose of the canvas panel
CloseCanvas(m) ==
  /\ CanvasShown(comp, m)
  /\ CommitCoord(handleCloseCanvas(Coord, m))
  /\ ev' = Other
  /\ UNCHANGED <<reqs, db, pureVars, flowVars>>

\* mouse move while the resize handle of the canvas panel is dragged
Drag(m, x) ==
  /\ CanvasShown(comp, m)
  /\ CommitCoord(handleWidthChange(Coord, m, ClampedWidth(x)))
  /\ ev' = Other
  /\ UNCHANGED <<reqs, db, pureVars, flowVars>>

\* the timer of the auto-open effect fires
TimerFire(m) ==
  /\ comp[m].mounted /\ comp[m].timer
  /\ CommitCoord(AutoOpenFire(Coord, m))
  /\ ev' = Event("auto", m)
  /\ UNCHANGED <<reqs, db, pureVars, flowVars>>

\* the edit button of a user message (disabled while anyEditingActive)
StartEditing(m) ==
  /\ comp[m].mounted
  /\ ActiveMsg(m).sender = "user"
  /\ ~comp[m].isEditingLocal
  /\ comp[m].globalEditingId = Null
  /\ CommitCoord(startEditing(Coord, m))
  /\ ev' = Event("startedit", m)
  /\ UNCHANGED <<reqs, db, pureVars, flowVars>>

\* onChange of the edit box
TypeEdit(m, t) ==
  /\ comp[m].mounted /\ comp[m].isEditingLocal
  /\ comp[m].editText # t
  /\ CommitCoord([Coord EXCEPT !.comp[m].editText = t])
  /\ ev' = Other
  /\ UNCHANGED <<reqs, db, pureVars, flowVars>>

\* the cancel button of the edit box
CancelEdit(m) ==
  /\ comp[m].mounted /\ comp[m].isEditingLocal
  /\ CommitCoord(stopEditing(Coord, m, TRUE))
  /\ ev' = Other
  /\ UNCHANGED <<reqs, db, pureVars, flowVars>>

\* ChatMessage.handleSaveEdit: onEditMessage runs up to its first await with
\* the App state of the current render in its closure, then stopEditing(false)
SaveEdit(m) ==
  /\ comp[m].mounted /\ comp[m].isEditingLocal
  /\ IF comp[m].editText # ""
     THEN \E r \in ReqIds :
            /\ reqs[r].phase = "idle"
            /\ \A q \in ReqIds : q < r => reqs[q].phase # "idle"
            /\ reqs' = [reqs EXCEPT ![r] =
                 [phase |-> "check", conv |-> activeConversationId,
                  msgs |-> conversations[activeConversationId],
                  prev |-> conversations, msgId |-> m,
                  newText |-> comp[m].editText]]
     ELSE UNCHANGED reqs
  /\ CommitCoord(stopEditing(Coord, m, FALSE))
  /\ ev' = Other
  /\ UNCHANGED <<db, pureVars, flowVars>>

\* messages of the optimistic update of handleEditMessage
EditedMessages(q, r) ==
  LET messageIndex == CHOOSE i \in 1..Len(q.msgs) : q.msgs[i].id = q.msgId
  IN SubSeq(q.msgs, 1, messageIndex - 1)
       \o <<UserMsg(q.msgId, q.newText), AiMsg(FreshId(r), Placeholder)>>

\* an update that is not keyed by the conversation id
SetMessagesEvery(convs, c, msgs) ==
  [d \in DOMAIN convs |-> msgs]

\* prev.map(conv => conv.id === conversationId ? {...conv, messages} : conv)
SetMessages(convs, c, msgs) ==
  [d \in DOMAIN convs |-> IF d = c THEN msgs ELSE convs[d]]

\* handleEditMessage after `await checkRateLimit()`
EditCheck(r, limited) ==
  /\ reqs[r].phase = "check"
  /\ IF limited
     THEN /\ reqs' = [reqs EXCEPT ![r] = DoneReq]
          /\ CommitCoord(Coord)
     ELSE /\ reqs' = [reqs EXCEPT ![r].phase = "webhook"]
          /\ Commit(Coord, isAuthenticated, view, activeConversationId,
                    SetMessages(conversations, reqs[r].conv,
                                EditedMessages(reqs[r], r)),
                    TRUE)
  /\ ev' = IF limited THEN Other ELSE Event("editapply", reqs[r].msgId)
  /\ UNCHANGED <<db, pureVars, flowVars>>

\* finalMessages of the response handler
ReplaceText(msgs, id, t) ==
  [i \in 1..Len(msgs) |-> IF msgs[i].id = id THEN [msgs[i] EXCEPT !.text = t]
                          ELSE msgs[i]]

\* history of a response handler: the request, the text that arrived and
\* the conversations it found
Responded(r, t) ==
  [op |-> "respond", m |-> FreshId(r), shown |-> {}, conv |-> reqs[r].conv,
   text |-> t, before |-> conversations]

\* handleEditMessage after `await sendMessageToWebhook(newText)` resolved
EditRespond(r, t) ==
  /\ reqs[r].phase = "webhook"
  /\ LET c == reqs[r].conv
         final == SetMessages(conversations, c,
                    IF c \in DOMAIN conversations
                    THEN ReplaceText(conversations[c], FreshId(r), t)
                    ELSE <<>>)
     IN /\ Commit(Coord, isAuthenticated, view, activeConversationId, final, FALSE)
        /\ db' = IF c \in DOMAIN conversations
                 THEN (c :> final[c]) @@ db ELSE db
  /\ reqs' = [reqs EXCEPT ![r] = DoneReq]
  /\ ev' = Responded(r, t)
  /\ UNCHANGED <<pureVars, flowVars>>

\* handleEditMessage when a call of its try block threw (incrementMessageCount,
\* getRateLimitStatus): the catch block
EditFail(r) ==
  /\ reqs[r].phase = "webhook"
  /\ Commit(Coord, isAuthenticated, view, activeConversationId, reqs[r].prev, FALSE)
  /\ reqs' = [reqs EXCEPT ![r] = DoneReq]
  /\ ev' = Other
  /\ UNCHANGED <<db, pureVars, flowVars>>

UiNext ==
  \/ \E c \in 1..2 : SelectConv(c)
  \/ NewChat
  \/ OpenSettings
  \/ CloseSettings
  \/ Logout
  \/ AuthSuccess
  \/ \E c \in 1..2 : DeleteConversation(c)
  \/ \E m \in MsgIds : OpenCanvas(m)
  \/ \E m \in MsgIds : CloseCanvas(m)
  \/ \E m \in MsgIds, x \in PointerXs : Drag(m, x)
  \/ \E m \in MsgIds : TimerFire(m)
  \/ \E m \in MsgIds : StartEditing(m)
  \/ \E m \in MsgIds, t \in TypedTexts : TypeEdit(m, t)
  \/ \E m \in MsgIds : CancelEdit(m)
  \/ \E m \in MsgIds : SaveEdit(m)
  \/ \E r \in ReqIds, limited \in BOOLEAN : EditCheck(r, limited)
  \/ \E r \in ReqIds, t \in AiReplies : EditRespond(r, t)
  \/ \E r \in ReqIds : EditFail(r)

Next == UiNext

Spec == Init /\ [][Next]_vars


-----------------------------------------------------------------------------
(* Texts.  A text is a sequence of characters, each a string; positions    *)
(* are the 0-based indices of the source, At(t, i) being text[i].          *)

\* bounds of the texts the scanner specification draws
MaxBlocks == 2
MaxLines == 4
MaxChars == 4

\* the backtick character (a TLA+ string cannot hold it) and the bullet
Backtick == "bq"
Bullet == "bullet"

Fence == <<Backtick, Backtick, Backtick>>
NL == <<"\n">>

\* characters matched by \s and removed by String.prototype.trim
Whitespace == {" ", "\n"}

At(t, i) == t[i + 1]

\* text.slice(a, b)
Slice(t, a, b) == SubSeq(t, a + 1, b)

MinOf(S) == CHOOSE x \in S : \A y \in S : x <= y
MaxOf(S) == CHOOSE x \in S : \A y \in S : x >= y

\* text.indexOf(pat, from), -1 when pat does not occur at or after from
IndexOf(t, pat, from) ==
  LET hits == {i \in from..(Len(t) - Len(pat)) :
                 \A k \in 1..Len(pat) : t[i + k] = pat[k]}
  IN IF hits = {} THEN -1 ELSE MinOf(hits)

\* s.trim()
Trim(t) ==
  LET solid == {i \in 1..Len(t) : t[i] \notin Whitespace}
  IN IF solid = {} THEN <<>> ELSE SubSeq(t, MinOf(solid), MaxOf(solid))

\* s.split(ch)
RECURSIVE Split(_, _)
Split(t, ch) ==
  LET i == IndexOf(t, <<ch>>, 0)
  IN IF i = -1 THEN <<t>>
     ELSE <<Slice(t, 0, i)>> \o Split(Slice(t, i + 1, Len(t)), ch)

NonEmpty(t) == t # <<>>
NonBlank(t) == Trim(t) # <<>>

-----------------------------------------------------------------------------
(* parseAiResponse, step 1: the fenced block scan                          *)

\* the closing fence must be at the start of a line
AtLineStartAny(t, potentialEnd) == TRUE

AtLineStart(t, potentialEnd) ==
  potentialEnd = 0 \/ At(t, potentialEnd - 1) = "\n"

\* the inner loop: position of the closing fence, -1 when there is none
RECURSIVE FindCodeEnd(_, _)
FindCodeEnd(t, searchPos) ==
  IF ~(searchPos < Len(t)) THEN -1
  ELSE LET potentialEnd == IndexOf(t, Fence, searchPos)
       IN IF potentialEnd = -1 THEN -1
          ELSE IF AtLineStart(t, potentialEnd) THEN potentialEnd
          ELSE FindCodeEnd(t, potentialEnd + 3)

NoBlock == [type |-> "none", start |-> 0, end |-> 0,
            content |-> [language |-> <<>>, code |-> <<>>]]

TextTag == <<"t", "e", "x", "t">>

\* position after an opening fence that no newline follows
SkipOpenerStuck(codeStart) == codeStart

SkipOpener(codeStart) == codeStart + 3

\* one iteration of the outer loop started at pos
ScanIteration(t, pos) ==
  LET codeStart == IndexOf(t, Fence, pos)
      langStart == codeStart + 3
      langEnd == IndexOf(t, NL, langStart)
      language == Trim(Slice(t, langStart, langEnd))
      contentStart == langEnd + 1
      codeEnd == FindCodeEnd(t, contentStart)
  IN IF codeStart = -1
     THEN [kind |-> "nofence", codeStart |-> codeStart, pos |-> pos,
           block |-> NoBlock]
     ELSE IF langEnd = -1
     THEN [kind |-> "nonewline", codeStart |-> codeStart,
           pos |-> SkipOpener(codeStart), block |-> NoBlock]
     ELSE IF codeEnd = -1
     THEN [kind |-> "unclosed", codeStart |-> codeStart, pos |-> pos,
           block |-> NoBlock]
     ELSE [kind |-> "block", codeStart |-> codeStart, pos |-> codeEnd + 3,
           block |-> [type |-> "code", start |-> codeStart, end |-> codeEnd + 3,
                      content |-> [language |-> IF language = <<>> THEN TextTag
                                                ELSE language,
                                   code |-> Trim(Slice(t, contentStart, codeEnd))]]]

-----------------------------------------------------------------------------
(* parseAiResponse, step 2: the table pattern                              *)
(*   \|[^\n]+\|\n  \|[\s:|-]+\|\n  (?:\|[^\n]+\|\n?)*                      *)
(* matched as the backtracking matcher does: every quantifier greedy, the  *)
(* first successful path taken.                                            *)

SepClass == Whitespace \cup {":", "|", "-"}

\* end (exclusive) of the longest run of Class characters that starts at i
RunEnd(t, i, Class) ==
  LET stops == {j \in i..(Len(t) - 1) : At(t, j) \notin Class}
  IN IF stops = {} THEN Len(t) ELSE MinOf(stops)

\* \|[^\n]+\|\n at i: the position after its newline, -1 when it fails
HeaderEnd(t, i) ==
  LET e == IndexOf(t, NL, i + 1)
  IN IF i < Len(t) /\ At(t, i) = "|" /\ e # -1 /\ e - 1 >= i + 2
        /\ At(t, e - 1) = "|"
     THEN e + 1 ELSE -1

\* \|[\s:|-]+\|\n at s: the class run is given back up to the last "|\n"
SeparatorEnd(t, s) ==
  IF ~(s < Len(t) /\ At(t, s) = "|") THEN -1
  ELSE LET r == RunEnd(t, s + 1, SepClass)
           ks == {k \in (s + 2)..(r - 2) : At(t, k) = "|" /\ At(t, k + 1) = "\n"}
       IN IF ks = {} THEN -1 ELSE MaxOf(ks) + 2

\* \|[^\n]+\|\n? at p: up to the last "|" of the line and the newline after it
RowEnd(t, p) ==
  IF ~(p < Len(t) /\ At(t, p) = "|") THEN -1
  ELSE LET n == IndexOf(t, NL, p + 1)
           lineEnd == IF n = -1 THEN Len(t) ELSE n
           js == {j \in (p + 2)..(lineEnd - 1) : At(t, j) = "|"}
           e == MaxOf(js) + 1
       IN IF js = {} THEN -1
          ELSE IF e < Len(t) /\ At(t, e) = "\n" THEN e + 1 ELSE e

\* (?:row)* at p
RECURSIVE RowsEnd(_, _)
RowsEnd(t, p) ==
  LET e == RowEnd(t, p) IN IF e = -1 THEN p ELSE RowsEnd(t, e)

\* end of the match of the whole pattern at i, -1 when there is none
TableMatchEnd(t, i) ==
  LET h == HeaderEnd(t, i)
      s == IF h = -1 THEN -1 ELSE SeparatorEnd(t, h)
  IN IF s = -1 THEN -1 ELSE RowsEnd(t, s)

\* the successive tableRegex.exec(text) results from lastIndex on
RECURSIVE TableMatches(_, _)
TableMatches(t, lastIndex) ==
  LET starts == {i \in lastIndex..(Len(t) - 1) : TableMatchEnd(t, i) # -1}
      i == MinOf(starts)
  IN IF starts = {} THEN <<>>
     ELSE <<[start |-> i, end |-> TableMatchEnd(t, i)]>>
            \o TableMatches(t, TableMatchEnd(t, i))

\* line.split('|').map(c => c.trim()).filter(Boolean)
Cells(line) ==
  LET parts == Split(line, "|")
  IN SelectSeq([i \in 1..Len(parts) |-> Trim(parts[i])], NonEmpty)

\* headers and rows of a match; empty headers when it has fewer than 2 lines
TableData(t, m) ==
  LET lines == SelectSeq(Split(Trim(Slice(t, m.start, m.end)), "\n"), NonBlank)
      body == SubSeq(lines, 3, Len(lines))
  IN IF Len(lines) >= 2
     THEN [headers |-> Cells(lines[1]),
           rows |-> SelectSeq([i \in 1..Len(body) |-> Cells(body[i])], NonEmpty)]
     ELSE [headers |-> <<>>, rows |-> <<>>]

\* a table is discarded when it overlaps a code block
IsInsideCodeOverlap(blocks, tableStart, tableEnd) ==
  \E k \in 1..Len(blocks) :
    blocks[k].type = "code" /\ tableStart < blocks[k].end
      /\ blocks[k].start < tableEnd

IsInsideCode(blocks, tableStart, tableEnd) ==
  \E k \in 1..Len(blocks) :
    blocks[k].type = "code" /\ tableStart >= blocks[k].start
      /\ tableEnd <= blocks[k].end

\* the table blocks the loop pushes
TableBlocks(t, blocks) ==
  LET ms == TableMatches(t, 0)
      cand == [i \in 1..Len(ms) |->
                 [type |-> "table", start |-> ms[i].start, end |-> ms[i].end,
                  content |-> TableData(t, ms[i])]]
  IN SelectSeq(cand, LAMBDA b :
       /\ ~IsInsideCode(blocks, b.start, b.end)
       /\ b.content.headers # <<>>
       /\ b.content.rows # <<>>)

-----------------------------------------------------------------------------
(* parseAiResponse, steps 3 and 4: sort, gap fill, cleaning, fallback      *)

\* blocks.sort((a, b) => a.start - b.start), a stable sort
RECURSIVE SortByStart(_)
SortByStart(bs) ==
  IF bs = <<>> THEN <<>>
  ELSE LET i == CHOOSE i \in 1..Len(bs) : \A j \in 1..Len(bs) :
                  \/ bs[i].start < bs[j].start
                  \/ bs[i].start = bs[j].start /\ i <= j
       IN <<bs[i]>> \o SortByStart(SubSeq(bs, 1, i - 1) \o SubSeq(bs, i + 1, Len(bs)))

\* ^ of a multiline pattern
LineStart(s, i) == i = 0 \/ At(s, i - 1) = "\n"

\* .replace(/^(#+)\s/gm, '')
RECURSIVE StripHeadings(_, _)
StripHeadings(s, i) ==
  IF i >= Len(s) THEN <<>>
  ELSE LET h == RunEnd(s, i, {"#"})
       IN IF LineStart(s, i) /\ h > i /\ h < Len(s) /\ At(s, h) \in Whitespace
          THEN StripHeadings(s, h + 1)
          ELSE <<At(s, i)>> \o StripHeadings(s, i + 1)

\* .replace(/\*\*/g, '')
RECURSIVE StripBold(_, _)
StripBold(s, i) ==
  IF i >= Len(s) THEN <<>>
  ELSE IF i + 1 < Len(s) /\ At(s, i) = "*" /\ At(s, i + 1) = "*"
       THEN StripBold(s, i + 2)
       ELSE <<At(s, i)>> \o StripBold(s, i + 1)

\* .replace(/`/g, '')
StripBackticks(s) == SelectSeq(s, LAMBDA ch : ch # Backtick)

\* .replace(/^\s*[-*]\s/gm, bullet + ' ')
RECURSIVE Bullets(_, _)
Bullets(s, i) ==
  IF i >= Len(s) THEN <<>>
  ELSE LET w == RunEnd(s, i, Whitespace)
       IN IF LineStart(s, i) /\ w + 1 < Len(s) /\ At(s, w) \in {"-", "*"}
             /\ At(s, w + 1) \in Whitespace
          THEN <<Bullet, " ">> \o Bullets(s, w + 2)
          ELSE <<At(s, i)>> \o Bullets(s, i + 1)

\* the four replacements in their order
CleanText(s) ==
  Bullets(StripBackticks(StripBold(StripHeadings(s, 0), 0)), 0)

\* the text segment of a gap: trimmed, cleaned, dropped when blank
TextSegment(raw) ==
  LET textContent == Trim(raw)
      cleanedText == CleanText(textContent)
  IN IF textContent # <<>> /\ Trim(cleanedText) # <<>>
     THEN <<[type |-> "text", content |-> [text |-> cleanedText]]>>
     ELSE <<>>

\* the for loop over the sorted blocks and the remaining text
RECURSIVE GapFill(_, _, _)
GapFill(t, bs, currentPos) ==
  IF bs = <<>>
  THEN IF currentPos < Len(t) THEN TextSegment(Slice(t, currentPos, Len(t)))
       ELSE <<>>
  ELSE (IF currentPos < Head(bs).start
        THEN TextSegment(Slice(t, currentPos, Head(bs).start)) ELSE <<>>)
       \o <<[type |-> Head(bs).type, content |-> Head(bs).content]>>
       \o GapFill(t, Tail(bs), Head(bs).end)

\* a segmenter without the fallback
FallbackNone(t, components) == components

\* fallback of an empty result
Fallback(t, components) ==
  IF components = <<>> /\ Trim(t) # <<>> /\ Trim(CleanText(t)) # <<>>
  THEN <<[type |-> "text", content |-> [text |-> CleanText(t)]]>>
  ELSE components

-----------------------------------------------------------------------------
(* The scanner specification: parseAiResponse applied to bounded texts     *)

\* language tags, block contents (empty or ending a line) and the prose
\* around blocks (without a fence, not ending in a backtick)
Tags == {<<>>, <<"j", "s", " ">>}
Contents ==
  {<<>>,
   <<"a", Backtick, Backtick, Backtick, "b", "\n">>,
   <<" ", "a", "\n", "b", Backtick, Backtick, Backtick, Backtick, "\n">>}
Gaps == {<<>>, <<"a", " ">>, <<"\n", Backtick, "a", "\n">>}

\* a well-formed fenced block and what the scanner is to make of it
BlockText(tag, content) == Fence \o tag \o NL \o content \o Fence
BlockOf(tag, content) ==
  [language |-> IF Trim(tag) = <<>> THEN TextTag ELSE Trim(tag),
   code |-> Trim(content)]

\* texts of exactly n well-formed blocks, with the blocks they contain
RECURSIVE WellFormed(_)
WellFormed(n) ==
  IF n = 0 THEN {[text |-> g, blocks |-> <<>>] : g \in Gaps}
  ELSE {[text |-> g \o BlockText(tg, c) \o w.text,
         blocks |-> <<BlockOf(tg, c)>> \o w.blocks] :
          g \in Gaps, tg \in Tags, c \in Contents, w \in WellFormed(n - 1)}

\* texts made of lines
LinePool ==
  {<<"|", "a", "|">>, <<"|", "-", "|">>, Fence, <<"|">> \o Fence \o <<"|">>,
   <<"a">>}

RECURSIVE Join(_)
Join(ls) ==
  IF Len(ls) = 1 THEN ls[1] ELSE ls[1] \o NL \o Join(Tail(ls))

LineTexts ==
  {Join(ls) : ls \in UNION {[1..n -> LinePool] : n \in 1..MaxLines}}

\* short texts over the characters the cleaning step looks at
Alphabet == {"#", " ", Backtick, "*", "-", "a", "\n"}
CharTexts == UNION {[1..n -> Alphabet] : n \in 0..MaxChars}

NoIteration == [kind |-> "none", from |-> 0, codeStart |-> 0, nblocks |-> 0]

ScanInput(t, wf, expect) ==
  [pc |-> "input", text |-> t, wf |-> wf, expect |-> expect, pos |-> 0,
   iters |-> 0, last |-> NoIteration, blocks |-> <<>>, merged |-> <<>>,
   components |-> <<>>]

InitScan ==
  /\ UiInit
  /\ \/ \E n \in 0..MaxBlocks : \E w \in WellFormed(n) :
          scan = ScanInput(w.text, TRUE, w.blocks)
     \/ \E t \in LineTexts \cup CharTexts : scan = ScanInput(t, FALSE, <<>>)
  /\ fx = Off /\ preview = Off /\ exec = Off /\ store = Off /\ resize = Off /\ relay = Off
  /\ scanners = Off /\ input = Off /\ quota = Off /\ sends = Off

\* if (!text) return []
ParseStart ==
  /\ scan.pc = "input"
  /\ scan' = [scan EXCEPT !.pc = IF scan.text = <<>> THEN "done" ELSE "scan"]
  /\ UNCHANGED <<uiVars, fx, preview, exec, store, resize, relay, flowVars>>

\* the test of the outer while loop and one iteration of its body
ScanStep ==
  /\ scan.pc = "scan"
  /\ LET r == ScanIteration(scan.text, scan.pos)
         here == [kind |-> r.kind, from |-> scan.pos, codeStart |-> r.codeStart,
                  nblocks |-> Len(scan.blocks)]
     IN IF ~(scan.pos < Len(scan.text))
        THEN scan' = [scan EXCEPT !.pc = "tables", !.last = NoIteration]
        ELSE scan' = [scan EXCEPT
               !.pc = IF r.kind \in {"nofence", "unclosed"} THEN "tables" ELSE @,
               !.pos = r.pos,
               !.iters = @ + 1,
               !.last = here,
               !.blocks = IF r.kind = "block" THEN Append(@, r.block) ELSE @]
  /\ UNCHANGED <<uiVars, fx, preview, exec, store, resize, relay, flowVars>>

\* the tableRegex.exec loop
ExtractTables ==
  /\ scan.pc = "tables"
  /\ scan' = [scan EXCEPT !.pc = "merge",
                          !.blocks = @ \o TableBlocks(scan.text, @)]
  /\ UNCHANGED <<uiVars, fx, preview, exec, store, resize, relay, flowVars>>

\* sort, gap fill and fallback; the components are returned
MergeBlocks ==
  /\ scan.pc = "merge"
  /\ LET merged == GapFill(scan.text, SortByStart(scan.blocks), 0)
     IN scan' = [scan EXCEPT !.pc = "done", !.merged = merged,
                             !.components = Fallback(scan.text, merged)]
  /\ UNCHANGED <<uiVars, fx, preview, exec, store, resize, relay, flowVars>>

NextScan == ParseStart \/ ScanStep \/ ExtractTables \/ MergeBlocks

SpecScan == InitScan /\ [][NextScan]_vars

-----------------------------------------------------------------------------
(* Canvas coordinator and edit session: properties                         *)

AutoOpenOnlyWhenNoneOpen ==
  (ev.op = "auto" /\ ev.m \notin ev.shown) => ev.shown = {}

\* C3: opening the settings or selecting a conversation while a canvas panel
\* is rendered leaves the shared active canvas id null and the reserved
\* width 0.
CrossCuttingEventClosesCanvas ==
  (ev.op \in {"settings", "select"} /\ ev.shown # {})
    => (globalActiveCanvasId = Null /\ appCanvasWidth = 0)

\* C4: when the optimistic update of an edit drops the message whose canvas
\* is rendered, the shared active canvas id becomes null and the reserved
\* width 0.
DroppedOwnerClosesCanvas ==
  (ev.op = "editapply" /\ \E m \in ev.shown : ~comp[m].mounted)
    => (globalActiveCanvasId = Null /\ appCanvasWidth = 0)

\* C5: after a conversation switch or a logout the shared editing id and the
\* shared active canvas id are null.
SwitchOrLogoutResetsSingletons ==
  ev.op \in {"select", "logout"}
    => (globalEditingId = Null /\ globalActiveCanvasId = Null)

\* C6: at most one mounted message is in edit mode; after a message entered
\* edit mode it is the only one, and every message that is not in edit mode
\* holds its unedited text in its edit box.
EditExclusive ==
  /\ Cardinality(Editing) <= 1
  /\ ev.op = "startedit" => Editing = {ev.m}
  /\ \A m \in MsgIds :
       (comp[m].mounted /\ ~comp[m].isEditingLocal)
         => comp[m].editText = comp[m].pText

\* a message is in edit mode with a changed text beside another user message
\* whose edit button the broadcast disabled
EditExclusiveWitness ==
  \E m \in Editing :
    /\ comp[m].editText # comp[m].pText
    /\ \E n \in Mounted \ {m} :
         ActiveMsg(n).sender = "user" /\ comp[n].globalEditingId = m

-----------------------------------------------------------------------------
(* Scanner and segmenter: properties (checked under SpecScan)              *)

\* the code blocks among the detected blocks, in their order
CodeBlocks(bs) == SelectSeq(bs, LAMBDA b : b.type = "code")

Scanned == scan.pc \in {"tables", "merge", "done"}

\* C7: for a text made of N well-formed fenced blocks (opening fence, tag,
\* newline, content, closing fence at a line start) separated by prose without
\* fences, the scan yields exactly those N blocks in document order, each with
\* its trimmed tag ("text" when empty) and its trimmed content, also when the
\* content holds triple backticks that are not at a line start.
ScannerYieldsWellFormedBlocks ==
  (Scanned /\ scan.wf) =>
    LET found == CodeBlocks(scan.blocks)
    IN /\ Len(found) = Len(scan.expect)
       /\ \A i \in 1..Len(found) : found[i].content = scan.expect[i]
       /\ \A i \in 1..(Len(found) - 1) : found[i].end <= found[i + 1].start

\* two blocks were scanned, the first of them with a mid-line triple backtick
\* in its content
ScannerYieldsWellFormedBlocksWitness ==
  /\ scan.pc = "done" /\ scan.wf
  /\ Len(scan.expect) >= 2
  /\ IndexOf(scan.expect[1].code, Fence, 0) > 0
  /\ Len(CodeBlocks(scan.blocks)) = Len(scan.expect)

\* a closing fence at a line start exists at or after position from
ClosingFenceFrom(t, from) ==
  \E q \in from..(Len(t) - 3) : IndexOf(t, Fence, q) = q /\ LineStart(t, q)

\* C8: for every text the scan loop terminates (each iteration that continues
\* moves the position forward by at least 3 and never beyond the end of the
\* text); an opening fence that no newline follows is skipped, the position
\* moving strictly past it, without a block; an opening fence without a closing
\* fence at a line start after it produces no block; every block produced is
\* closed by a fence at a line start.
UnterminatedFenceSafe ==
  scan.pc # "input" =>
    /\ scan.pos <= Len(scan.text)
    /\ 3 * scan.iters <= Len(scan.text) + 3
    /\ scan.last.kind \in {"nonewline", "block"} =>
         scan.pos >= scan.last.from + 3 /\ scan.pos >= scan.last.codeStart + 3
    /\ scan.last.kind = "nonewline" =>
         /\ IndexOf(scan.text, NL, scan.last.codeStart + 3) = -1
         /\ Len(CodeBlocks(scan.blocks)) = scan.last.nblocks
    /\ scan.last.kind = "unclosed" =>
         /\ scan.pc # "scan"
         /\ IndexOf(scan.text, NL, scan.last.codeStart + 3) # -1
         /\ ~ClosingFenceFrom(scan.text,
               IndexOf(scan.text, NL, scan.last.codeStart + 3) + 1)
         /\ Len(CodeBlocks(scan.blocks)) = scan.last.nblocks
    /\ \A i \in 1..Len(scan.blocks) :
         scan.blocks[i].type = "code" =>
           /\ IndexOf(scan.text, Fence, scan.blocks[i].start) = scan.blocks[i].start
           /\ ClosingFenceFrom(scan.text, scan.blocks[i].start + 4)
           /\ IndexOf(scan.text, Fence, scan.blocks[i].end - 3)
                = scan.blocks[i].end - 3
           /\ LineStart(scan.text, scan.blocks[i].end - 3)
    /\ (~ClosingFenceFrom(scan.text, 0) /\ Scanned) => CodeBlocks(scan.blocks) = <<>>

\* after a block was scanned, an opening fence that no newline follows has
\* just been skipped
UnterminatedFenceSafeWitness ==
  /\ scan.pc = "scan"
  /\ scan.last.kind = "nonewline"
  /\ scan.last.nblocks = 1
  /\ scan.pos = scan.last.codeStart + 3

\* C9: no emitted table segment overlaps the span of a detected code block.
TableNeverOverlapsCode ==
  scan.pc = "done" =>
    \A i, j \in 1..Len(scan.blocks) :
      (scan.blocks[i].type = "table" /\ scan.blocks[j].type = "code")
        => \/ scan.blocks[i].end <= scan.blocks[j].start
           \/ scan.blocks[j].end <= scan.blocks[i].start

OneTextSegment(t) == <<[type |-> "text", content |-> [text |-> CleanText(t)]]>>

-----------------------------------------------------------------------------
(* extractCodeFiles and isReactCode (ChatMessage)                          *)

\* number of fenced blocks of the texts the extraction specification draws
MaxFiles == 3

UpperCase ==
  <<"A", "B", "C", "D", "E", "F", "G", "H", "I", "J", "K", "L", "M", "N", "O",
    "P", "Q", "R", "S", "T", "U", "V", "W", "X", "Y", "Z">>
LowerCase ==
  <<"a", "b", "c", "d", "e", "f", "g", "h", "i", "j", "k", "l", "m", "n", "o",
    "p", "q", "r", "s", "t", "u", "v", "w", "x", "y", "z">>

\* a comparison that keeps the case of the tag
toLowerCaseNone(t) == t

\* s.toLowerCase()
toLowerCase(t) ==
  [i \in 1..Len(t) |->
     IF \E k \in 1..26 : UpperCase[k] = t[i]
     THEN LowerCase[CHOOSE k \in 1..26 : UpperCase[k] = t[i]]
     ELSE t[i]]

\* the allow-list of extractCodeFiles
canvasLanguages ==
  {<<"h", "t", "m", "l">>,
   <<"c", "s", "s">>,
   <<"j", "a", "v", "a", "s", "c", "r", "i", "p", "t">>,
   <<"j", "s">>,
   <<"t", "y", "p", "e", "s", "c", "r", "i", "p", "t">>,
   <<"t", "s">>,
   <<"j", "s", "x">>,
   <<"t", "s", "x">>,
   <<"r", "e", "a", "c", "t">>,
   <<"t", "y", "p", "e", "s", "c", "r", "i", "p", "t", "-", "r", "e", "a", "c", "t">>,
   <<"p", "y", "t", "h", "o", "n">>,
   <<"c", "p", "p">>,
   <<"c">>,
   <<"j", "a", "v", "a">>,
   <<"p", "h", "p">>,
   <<"r", "u", "b", "y">>,
   <<"g", "o">>,
   <<"r", "u", "s", "t">>,
   <<"c", "s", "h", "a", "r", "p">>,
   <<"s", "w", "i", "f", "t">>,
   <<"k", "o", "t", "l", "i", "n">>,
   <<"c", "+", "+">>}

\* one iteration of the while loop of extractCodeFiles started at pos: the
\* next position and the file it pushed, if any
FileIteration(t, pos) ==
  LET codeStart == IndexOf(t, Fence, pos)
      langStart == codeStart + 3
      langEnd == IndexOf(t, NL, langStart)
      language == Trim(Slice(t, langStart, langEnd))
      contentStart == langEnd + 1
      codeEnd == FindCodeEnd(t, contentStart)
      content == Trim(Slice(t, contentStart, codeEnd))
  IN IF codeStart = -1 THEN [kind |-> "nofence", pos |-> pos, files |-> <<>>]
     ELSE IF langEnd = -1
     THEN [kind |-> "nonewline", pos |-> codeStart + 3, files |-> <<>>]
     ELSE IF codeEnd = -1 THEN [kind |-> "unclosed", pos |-> pos, files |-> <<>>]
     ELSE [kind |-> "block", pos |-> codeEnd + 3,
           files |-> IF toLowerCase(language) \in canvasLanguages
                     THEN <<[language |-> language, content |-> content]>>
                     ELSE <<>>]

\* text starts, at position i, with the characters of pat
StartsAt(t, i, pat) ==
  /\ i >= 0 /\ i + Len(pat) <= Len(t)
  /\ \A k \in 1..Len(pat) : t[i + k] = pat[k]

Quotes == {"'", "\""}

\* /import\s+.*from\s+['"]react['"]/i.test(content)
HasReactImport(content) ==
  LET l == toLowerCase(content)
      n == Len(l)
  IN \E i \in 0..n :
       /\ StartsAt(l, i, <<"i", "m", "p", "o", "r", "t">>)
       /\ \E a \in (i + 7)..n :
            /\ \A k \in (i + 6)..(a - 1) : At(l, k) \in Whitespace
            /\ \E f \in a..n :
                 /\ StartsAt(l, f, <<"f", "r", "o", "m">>)
                 /\ \A k \in a..(f - 1) : At(l, k) # "\n"
                 /\ \E q \in (f + 5)..(n - 7) :
                      /\ \A k \in (f + 4)..(q - 1) : At(l, k) \in Whitespace
                      /\ At(l, q) \in Quotes
                      /\ StartsAt(l, q + 1, <<"r", "e", "a", "c", "t">>)
                      /\ At(l, q + 6) \in Quotes

ReactLanguages ==
  {<<"j", "s", "x">>, <<"t", "s", "x">>, <<"r", "e", "a", "c", "t">>,
   <<"t", "y", "p", "e", "s", "c", "r", "i", "p", "t", "-", "r", "e", "a", "c", "t">>}

isReactCode(files) ==
  \E k \in 1..Len(files) :
    \/ toLowerCase(files[k].language) \in ReactLanguages
    \/ HasReactImport(files[k].content)

\* language tags as written after the fence, with what the allow-list makes
\* of each: python, sql, jsx, JSX and the empty tag
FileTags ==
  {[tag |-> <<"p", "y", "t", "h", "o", "n">>, keep |-> TRUE, ui |-> FALSE],
   [tag |-> <<"s", "q", "l">>, keep |-> FALSE, ui |-> FALSE],
   [tag |-> <<"j", "s", "x">>, keep |-> TRUE, ui |-> TRUE],
   [tag |-> <<"J", "S", "X">>, keep |-> TRUE, ui |-> TRUE],
   [tag |-> <<>>, keep |-> FALSE, ui |-> FALSE]}

\* block contents: a statement, and an import of react
FileContents ==
  {[code |-> <<"x", "=", "1">>, ui |-> FALSE],
   [code |-> <<"i", "m", "p", "o", "r", "t", " ", "R", " ", "f", "r", "o", "m",
               " ", "'", "r", "e", "a", "c", "t", "'">>, ui |-> TRUE]}

\* texts of exactly n fenced blocks, each after a line of prose, with the
\* files the blocks of an allowed tag make, in document order
RECURSIVE FileTexts(_)
FileTexts(n) ==
  IF n = 0 THEN {[text |-> <<>>, tags |-> <<>>, files |-> <<>>, ui |-> FALSE]}
  ELSE {[text |-> <<"a", "\n">> \o BlockText(tg.tag, c.code \o NL) \o NL \o w.text,
         tags |-> <<tg.tag>> \o w.tags,
         files |-> (IF tg.keep
                    THEN <<[language |-> tg.tag, content |-> c.code]>>
                    ELSE <<>>) \o w.files,
         ui |-> (tg.keep /\ (tg.ui \/ c.ui)) \/ w.ui] :
          tg \in FileTags, c \in FileContents, w \in FileTexts(n - 1)}

InitFiles ==
  /\ UiInit
  /\ \E n \in 0..MaxFiles : \E w \in FileTexts(n) :
       fx = [pc |-> "scan", text |-> w.text, tags |-> w.tags,
             expect |-> w.files, expectUi |-> w.ui,
             pos |-> 0, files |-> <<>>, react |-> FALSE]
  /\ scan = Off /\ preview = Off /\ exec = Off /\ store = Off /\ resize = Off /\ relay = Off
  /\ scanners = Off /\ input = Off /\ quota = Off /\ sends = Off

\* the test of the while loop of extractCodeFiles and one iteration of it
ExtractStep ==
  /\ fx.pc = "scan"
  /\ LET r == FileIteration(fx.text, fx.pos)
     IN IF ~(fx.pos < Len(fx.text)) \/ r.kind \in {"nofence", "unclosed"}
        THEN fx' = [fx EXCEPT !.pc = "classify"]
        ELSE fx' = [fx EXCEPT !.pos = r.pos, !.files = @ \o r.files]
  /\ UNCHANGED <<uiVars, scan, preview, exec, store, resize, relay, flowVars>>

\* ChatMessage: isReactCode(codeFiles) chooses the kind of canvas
ClassifyFiles ==
  /\ fx.pc = "classify"
  /\ fx' = [fx EXCEPT !.pc = "done", !.react = isReactCode(fx.files)]
  /\ UNCHANGED <<uiVars, scan, preview, exec, store, resize, relay, flowVars>>

NextFiles == ExtractStep \/ ClassifyFiles

SpecFiles == InitFiles /\ [][NextFiles]_vars

\* C11: extractCodeFiles returns, in document order, exactly the fenced
\* blocks whose language tag, compared case-insensitively, is in the
\* allow-list, and the file set is classified as component UI exactly when
\* one of its files has a component language or imports react.
ExtractKeepsAllowedBlocks ==
  fx.pc = "done" => fx.files = fx.expect /\ fx.react = fx.expectUi

\* blocks tagged python, sql, jsx yield the python and the jsx file, which
\* are classified as component UI
ExtractKeepsAllowedBlocksWitness ==
  /\ fx.pc = "done"
  /\ fx.tags = <<<<"p", "y", "t", "h", "o", "n">>, <<"s", "q", "l">>,
                 <<"j", "s", "x">>>>
  /\ Len(fx.files) = 2
  /\ fx.files[1].language = <<"p", "y", "t", "h", "o", "n">>
  /\ fx.files[2].language = <<"j", "s", "x">>
  /\ fx.react

-----------------------------------------------------------------------------
(* ReactPreview: the bundle assembled from the files of a canvas           *)

\* number of files of the file sets the bundle specification draws
MaxBundleFiles == 3

KwFunction == <<"f", "u", "n", "c", "t", "i", "o", "n">>
KwConst == <<"c", "o", "n", "s", "t">>
KwExport == <<"e", "x", "p", "o", "r", "t">>
KwDefault == <<"d", "e", "f", "a", "u", "l", "t">>
KwApp == <<"A", "p", "p">>

UpperSet == {UpperCase[k] : k \in 1..26}

\* characters matched by \w
WordChars ==
  UpperSet \cup {LowerCase[k] : k \in 1..26}
  \cup {"0", "1", "2", "3", "4", "5", "6", "7", "8", "9", "_"}

\* kw\s+ at i: the position after the whitespace, -1 when it fails
AfterKeyword(t, i, kw) ==
  LET e == i + Len(kw)
  IN IF StartsAt(t, i, kw) /\ RunEnd(t, e, Whitespace) > e
     THEN RunEnd(t, e, Whitespace) ELSE -1

\* /function\s+App/.test(t)
HasFunctionApp(t) ==
  \E i \in 0..Len(t) :
    LET j == AfterKeyword(t, i, KwFunction)
    IN j # -1 /\ StartsAt(t, j, KwApp)

\* /const\s+App\s*=/.test(t)
HasConstApp(t) ==
  \E i \in 0..Len(t) :
    LET j == AfterKeyword(t, i, KwConst)
    IN /\ j # -1 /\ StartsAt(t, j, KwApp)
       /\ LET k == RunEnd(t, j + 3, Whitespace)
          IN k < Len(t) /\ At(t, k) = "="

\* /export\s+default\s+App/.test(t)
HasExportDefaultApp(t) ==
  \E i \in 0..Len(t) :
    LET j == AfterKeyword(t, i, KwExport)
        d == IF j = -1 THEN -1 ELSE AfterKeyword(t, j, KwDefault)
    IN d # -1 /\ StartsAt(t, d, KwApp)

\* aHasApp / bHasApp of the sort comparator
HasApp(file) ==
  \/ HasFunctionApp(file.content)
  \/ HasConstApp(file.content)
  \/ HasExportDefaultApp(file.content)

\* [...jsxFiles].sort(...): the comparator orders by HasApp alone and the
\* sort is stable
SortFiles(files) ==
  SelectSeq(files, LAMBDA f : ~HasApp(f)) \o SelectSeq(files, HasApp)

\* ([A-Z]\w+) at j: the identifier, <<>> when it fails
IdentifierAt(t, j) ==
  IF j >= 0 /\ j < Len(t) /\ At(t, j) \in UpperSet
     /\ RunEnd(t, j + 1, WordChars) > j + 1
  THEN Slice(t, j, RunEnd(t, j + 1, WordChars)) ELSE <<>>

\* function\s+([A-Z]\w+) at i
FunctionNameAt(t, i) == IdentifierAt(t, AfterKeyword(t, i, KwFunction))

\* const\s+([A-Z]\w+)\s*= at i
ConstNameAt(t, i) ==
  LET j == AfterKeyword(t, i, KwConst)
      name == IdentifierAt(t, j)
      k == RunEnd(t, j + Len(name), Whitespace)
  IN IF name # <<>> /\ k < Len(t) /\ At(t, k) = "=" THEN name ELSE <<>>

\* export\s+default\s+([A-Z]\w+) at i
ExportNameAt(t, i) ==
  LET j == AfterKeyword(t, i, KwExport)
  IN IF j = -1 THEN <<>> ELSE IdentifierAt(t, AfterKeyword(t, j, KwDefault))

\* code.match(re)[1] of the leftmost match, <<>> for no match
FirstMatch(t, NameAt(_, _)) ==
  LET hits == {i \in 0..Len(t) : NameAt(t, i) # <<>>}
  IN IF hits = {} THEN <<>> ELSE NameAt(t, MinOf(hits))

\* extractComponentName; <<>> is null
extractComponentName(code) ==
  IF FirstMatch(code, FunctionNameAt) # <<>> THEN FirstMatch(code, FunctionNameAt)
  ELSE IF FirstMatch(code, ConstNameAt) # <<>> THEN FirstMatch(code, ConstNameAt)
  ELSE FirstMatch(code, ExportNameAt)

\* isAppComponent of the forEach body
IsAppComponent(componentName, code) ==
  componentName = KwApp \/ HasFunctionApp(code) \/ HasConstApp(code)

\* export\s+default\s+(\w+);?\s* at i: the end of the match, -1 when it fails
ExportDefaultNameEnd(t, i) ==
  LET j == AfterKeyword(t, i, KwExport)
      d == IF j = -1 THEN -1 ELSE AfterKeyword(t, j, KwDefault)
      w == IF d = -1 THEN -1 ELSE RunEnd(t, d, WordChars)
      s == IF w # -1 /\ w < Len(t) /\ At(t, w) = ";" THEN w + 1 ELSE w
  IN IF d = -1 \/ w = d THEN -1 ELSE RunEnd(t, s, Whitespace)

\* code.replace(/export\s+default\s+(\w+);?\s*/g, '')
RECURSIVE RemoveExportDefaultName(_)
RemoveExportDefaultName(t) ==
  LET hits == {i \in 0..Len(t) : ExportDefaultNameEnd(t, i) # -1}
  IN IF hits = {} THEN t
     ELSE Slice(t, 0, MinOf(hits))
            \o RemoveExportDefaultName(
                 Slice(t, ExportDefaultNameEnd(t, MinOf(hits)), Len(t)))

\* export\s+default\s+ at i: the end of the match, -1 when it fails
ExportDefaultEnd(t, i) ==
  LET j == AfterKeyword(t, i, KwExport)
  IN IF j = -1 THEN -1 ELSE AfterKeyword(t, j, KwDefault)

\* code.replace(/export\s+default\s+/g, '')
RECURSIVE RemoveExportDefault(_)
RemoveExportDefault(t) ==
  LET hits == {i \in 0..Len(t) : ExportDefaultEnd(t, i) # -1}
  IN IF hits = {} THEN t
     ELSE Slice(t, 0, MinOf(hits))
            \o RemoveExportDefault(
                 Slice(t, ExportDefaultEnd(t, MinOf(hits)), Len(t)))

\* text holds the characters of pat somewhere
Contains(t, pat) == IndexOf(t, pat, 0) # -1

\* contents the other replacements of the forEach body leave as they are:
\* no import, no type annotation, interface or type alias, no export other
\* than a default export, fewer than three line breaks
Plain(code) ==
  /\ ~Contains(code, <<":">>)
  /\ ~Contains(code, <<"i", "m", "p", "o", "r", "t">>)
  /\ ~Contains(code, <<"t", "y", "p", "e">>)
  /\ ~Contains(code, <<"i", "n", "t", "e", "r", "f", "a", "c", "e">>)
  /\ \A i \in 0..Len(code) :
       AfterKeyword(code, i, KwExport) # -1 => ExportDefaultEnd(code, i) # -1
  /\ Cardinality({i \in 1..Len(code) : code[i] = "\n"}) < 3

\* the text the forEach body appends for the file at 0-based index
EmittedText(file, index) ==
  LET componentName == extractComponentName(file.content)
      code == RemoveExportDefault(RemoveExportDefaultName(file.content))
  IN (IF index > 0 THEN <<"\n", "\n">> ELSE <<>>)
     \o (IF componentName # <<>>
         THEN <<"/", "/", " ">> \o componentName \o NL ELSE <<>>)
     \o Trim(code) \o NL

\* the auto-generated App
GeneratedApp(firstComponent) ==
  <<"\n", "\n", "/", "/", " ", "A", "u", "t", "o", "-", "g", "e", "n", "e",
    "r", "a", "t", "e", "d", " ", "A", "p", "p", "\n", "f", "u", "n", "c", "t",
    "i", "o", "n", " ", "A", "p", "p", "(", ")", " ", "{", "\n", " ", " ", "r",
    "e", "t", "u", "r", "n", " ", "<">>
  \o firstComponent \o <<" ", "/", ">", ";", "\n", "}", "\n">>

NoComponentFound ==
  <<"N", "o", " ", "R", "e", "a", "c", "t", " ", "c", "o", "m", "p", "o", "n",
    "e", "n", "t", " ", "f", "o", "u", "n", "d", ".">>
NoValidComponent ==
  <<"N", "o", " ", "v", "a", "l", "i", "d", " ", "c", "o", "m", "p", "o", "n",
    "e", "n", "t", " ", "f", "o", "u", "n", "d", ".">>

jsxLanguages ==
  {<<"j", "s", "x">>, <<"t", "s", "x">>, <<"r", "e", "a", "c", "t">>,
   <<"t", "y", "p", "e", "s", "c", "r", "i", "p", "t", "-", "r", "e", "a", "c", "t">>,
   <<"j", "a", "v", "a", "s", "c", "r", "i", "p", "t">>,
   <<"t", "y", "p", "e", "s", "c", "r", "i", "p", "t">>}

IsJsxFile(f) == toLowerCase(f.language) \in jsxLanguages
IsCssFile(f) == toLowerCase(f.language) = <<"c", "s", "s">>

\* cssFiles.map(f => f.content).join('\n\n')
RECURSIVE JoinStyles(_)
JoinStyles(fs) ==
  IF fs = <<>> THEN <<>>
  ELSE IF Len(fs) = 1 THEN fs[1].content
  ELSE fs[1].content \o <<"\n", "\n">> \o JoinStyles(Tail(fs))

EmptyBundle == [code |-> <<>>, styles |-> <<>>, imports |-> <<>>]

\* a catch block that returns what had been assembled
BundleFailedPartial(p, msg) ==
  [p EXCEPT !.pc = "srcdoc", !.error = msg,
            !.bundle = [code |-> Trim(p.combinedCode), styles |-> p.styles,
                        imports |-> <<>>]]

\* the catch block of bundledCode
BundleFailed(p, msg) ==
  [p EXCEPT !.pc = "srcdoc", !.error = msg, !.bundle = EmptyBundle]

CodeFile(l, c) == [language |-> l, content |-> c]

\* the files a canvas can hold
FilePool ==
  {CodeFile(<<"j", "s", "x">>,
            <<"f", "u", "n", "c", "t", "i", "o", "n", " ", "C", "a", "r", "d",
              "(", ")", "{", "}">>),
   CodeFile(<<"j", "s", "x">>,
            <<"f", "u", "n", "c", "t", "i", "o", "n", " ", "A", "p", "p", "(",
              ")", "{", "}">>),
   CodeFile(<<"j", "s", "x">>,
            <<"f", "u", "n", "c", "t", "i", "o", "n", " ", "A", "p", "p", "B",
              "a", "r", "(", ")", "{", "}">>),
   CodeFile(<<"T", "S", "X">>,
            <<"c", "o", "n", "s", "t", " ", "A", "p", "p", " ", "=", " ", "1">>),
   CodeFile(<<"j", "a", "v", "a", "s", "c", "r", "i", "p", "t">>,
            <<"l", "e", "t", " ", "x", "=", "1">>),
   CodeFile(<<"c", "s", "s">>, <<"a", "{", "}">>),
   CodeFile(<<"j", "s", "x">>,
            <<"f", "u", "n", "c", "t", "i", "o", "n", " ", "C", "a", "r", "d",
              "(", ")", "{", "}", "\n", "e", "x", "p", "o", "r", "t", " ", "d",
              "e", "f", "a", "u", "l", "t", " ", "A", "p", "p">>),
   CodeFile(<<"j", "s">>,
            <<"f", "u", "n", "c", "t", "i", "o", "n", " ", "W", "i", "d", "g",
              "e", "t", "(", ")", "{", "}">>)}

FileSets ==
  UNION {[1..n -> {f \in FilePool : Plain(f.content)}] : n \in 1..MaxBundleFiles}

BundleInput(files) ==
  [pc |-> "select", files |-> files, jsxFiles |-> <<>>, styles |-> <<>>,
   sortedFiles |-> <<>>, index |-> 0, combinedCode |-> <<>>,
   hasAppComponent |-> FALSE, componentNames |-> <<>>, generated |-> <<>>,
   error |-> <<>>, bundle |-> EmptyBundle, srcDoc |-> FALSE]

InitBundle ==
  /\ UiInit
  /\ \E files \in FileSets : preview = BundleInput(files)
  /\ scan = Off /\ fx = Off /\ exec = Off /\ store = Off /\ resize = Off /\ relay = Off
  /\ scanners = Off /\ input = Off /\ quota = Off /\ sends = Off

\* bundledCode: the file selection
SelectFiles ==
  /\ preview.pc = "select"
  /\ LET jsxFiles == SelectSeq(preview.files, IsJsxFile)
         p == [preview EXCEPT !.jsxFiles = jsxFiles,
                 !.styles = JoinStyles(SelectSeq(preview.files, IsCssFile))]
     IN preview' = IF Len(jsxFiles) = 0 THEN BundleFailed(p, NoComponentFound)
                   ELSE [p EXCEPT !.pc = "sort"]
  /\ UNCHANGED <<uiVars, scan, fx, exec, store, resize, relay, flowVars>>

\* bundledCode: the sort
SortStep ==
  /\ preview.pc = "sort"
  /\ preview' = [preview EXCEPT !.pc = "emit",
                                !.sortedFiles = SortFiles(preview.jsxFiles)]
  /\ UNCHANGED <<uiVars, scan, fx, exec, store, resize, relay, flowVars>>

\* bundledCode: one call of the forEach callback
EmitFile ==
  /\ preview.pc = "emit"
  /\ preview.index < Len(preview.sortedFiles)
  /\ LET file == preview.sortedFiles[preview.index + 1]
         componentName == extractComponentName(file.content)
     IN preview' = [preview EXCEPT
          !.index = @ + 1,
          !.componentNames = IF componentName # <<>>
                             THEN Append(@, componentName) ELSE @,
          !.hasAppComponent = @ \/ IsAppComponent(componentName, file.content),
          !.combinedCode = @ \o EmittedText(file, preview.index)]
  /\ UNCHANGED <<uiVars, scan, fx, exec, store, resize, relay, flowVars>>

\* bundledCode: the auto-generated App and the result
FinishBundle ==
  /\ preview.pc = "emit"
  /\ preview.index = Len(preview.sortedFiles)
  /\ LET firstComponent == IF preview.componentNames = <<>> THEN <<>>
                           ELSE preview.componentNames[1]
         generate == /\ ~preview.hasAppComponent
                     /\ firstComponent # <<>> /\ firstComponent # KwApp
         combined == preview.combinedCode
                       \o (IF generate THEN GeneratedApp(firstComponent)
                           ELSE <<>>)
     IN preview' =
          IF ~preview.hasAppComponent /\ firstComponent = <<>>
          THEN BundleFailed(preview, NoValidComponent)
          ELSE [preview EXCEPT
                  !.pc = "srcdoc",
                  !.combinedCode = combined,
                  !.generated = IF generate THEN firstComponent ELSE <<>>,
                  !.bundle = [code |-> Trim(combined), styles |-> preview.styles,
                              imports |-> <<>>]]
  /\ UNCHANGED <<uiVars, scan, fx, exec, store, resize, relay, flowVars>>

\* the srcDoc memo: a sandbox document unless error || !bundledCode.code
SrcDoc ==
  /\ preview.pc = "srcdoc"
  /\ preview' = [preview EXCEPT
       !.pc = "done",
       !.srcDoc = ~(preview.error # <<>> \/ preview.bundle.code = <<>>)]
  /\ UNCHANGED <<uiVars, scan, fx, exec, store, resize, relay, flowVars>>

NextBundle == SelectFiles \/ SortStep \/ EmitFile \/ FinishBundle \/ SrcDoc

SpecBundle == InitBundle /\ [][NextBundle]_vars

-----------------------------------------------------------------------------
(* ReactPreview bundle: properties                                         *)

\* the identifier App, and not a longer one, starts at j
AppAt(t, j) ==
  StartsAt(t, j, KwApp) /\ (j + 3 = Len(t) \/ At(t, j + 3) \notin WordChars)

\* the file declares an identifier literally named App by function
\* declaration, const assignment or default export
DeclaresApp(file) ==
  LET t == file.content
  IN \E i \in 0..Len(t) :
       \/ AppAt(t, AfterKeyword(t, i, KwFunction))
       \/ LET j == AfterKeyword(t, i, KwConst)
              k == RunEnd(t, j + 3, Whitespace)
          IN AppAt(t, j) /\ k < Len(t) /\ At(t, k) = "="
       \/ LET j == AfterKeyword(t, i, KwExport)
          IN j # -1 /\ AppAt(t, AfterKeyword(t, j, KwDefault))

\* C12: in an assembled bundle the files that declare App are emitted after
\* all files that do not, and each of the two groups keeps its input order.
EntryFilesEmittedLast ==
  (preview.pc = "done" /\ preview.error = <<>>) =>
    preview.sortedFiles =
      SelectSeq(preview.jsxFiles, LAMBDA f : ~DeclaresApp(f))
        \o SelectSeq(preview.jsxFiles, DeclaresApp)

\* C13: when no file declares App and a component identifier was detected,
\* assembly succeeds with a generated App that renders the first detected
\* component; when none was detected it fails with 'No valid component
\* found.'.
GeneratedAppWhenNoEntry ==
  (/\ preview.pc = "done"
   /\ preview.jsxFiles # <<>>
   /\ \A k \in 1..Len(preview.jsxFiles) : ~DeclaresApp(preview.jsxFiles[k])) =>
    IF preview.componentNames # <<>>
    THEN /\ preview.error = <<>>
         /\ preview.generated = preview.componentNames[1]
    ELSE preview.error = NoValidComponent

\* C14: a file set without a jsx, tsx, react, typescript-react, javascript
\* or typescript file ends in the error 'No React component found.' with an
\* empty bundle and no sandbox document.
NoComponentFileFailsEmpty ==
  (/\ preview.pc = "done"
   /\ \A k \in 1..Len(preview.files) : ~IsJsxFile(preview.files[k])) =>
    /\ preview.error = NoComponentFound
    /\ preview.bundle = EmptyBundle
    /\ ~preview.srcDoc

\* a file set of one stylesheet has been assembled
NoComponentFileFailsEmptyWitness ==
  /\ preview.pc = "done"
  /\ preview.files = <<CodeFile(<<"c", "s", "s">>, <<"a", "{", "}">>)>>
  /\ preview.styles = <<"a", "{", "}">>
  /\ preview.error = NoComponentFound

-----------------------------------------------------------------------------
(* CodeExecutor.runCode: the result of a remote execution                  *)

\* a field the response does not hold
Absent == [present |-> FALSE]

\* texts of stdout, stderr and compile.output: empty, blank, with content
StreamTexts == {<<>>, <<"\n">>, <<"o">>, <<"e", "\n">>}

\* data.run, when present
Runs == {[present |-> TRUE, stdout |-> o, stderr |-> e] :
           o \in StreamTexts, e \in StreamTexts}

\* data.compile, when present
Compiles == {[present |-> TRUE, output |-> c] : c \in StreamTexts}

\* bodies of a response with an ok status
Responses ==
  {[run |-> r, compile |-> c, message |-> m] :
     r \in Runs \cup {Absent}, c \in Compiles \cup {Absent},
     m \in {<<>>, <<"m">>}}

CompilationError ==
  <<"C", "o", "m", "p", "i", "l", "a", "t", "i", "o", "n", " ", "E", "r", "r",
    "o", "r", ":", "\n">>

\* the fixed messages, by their translation key
Message(key) == <<key>>

Shown(error, output) == [error |-> error, output |-> output]


\* the result handling of runCode: what setError and setOutput receive
ShowResponse(data) ==
  IF data.run.present
  THEN LET stdout == data.run.stdout
           stderr == data.run.stderr
           compile_output == IF data.compile.present THEN data.compile.output
                             ELSE <<>>
           combinedOutput == stdout \o (IF stderr # <<>> THEN NL \o stderr
                                        ELSE <<>>)
       IN IF compile_output # <<>> /\ Trim(compile_output) # <<>>
          THEN Shown(CompilationError \o compile_output, <<>>)
          ELSE IF stderr # <<>> /\ stdout = <<>> THEN Shown(stderr, <<>>)
          ELSE IF Trim(combinedOutput) # <<>> THEN Shown(<<>>, combinedOutput)
          ELSE Shown(<<>>, Message("programSuccess"))
  ELSE Shown(IF data.message # <<>> THEN data.message
             ELSE Message("failedToExecute"), <<>>)

NoResponse == [run |-> Absent, compile |-> Absent, message |-> <<>>]

InitExec ==
  /\ UiInit
  /\ \E supported \in BOOLEAN :
       exec = [pc |-> "idle", supported |-> supported, isRunning |-> FALSE,
               hasRun |-> FALSE, error |-> <<>>, output |-> <<>>,
               via |-> "none", data |-> NoResponse]
  /\ scan = Off /\ fx = Off /\ preview = Off /\ store = Off /\ resize = Off /\ relay = Off
  /\ scanners = Off /\ input = Off /\ quota = Off /\ sends = Off

\* runCode up to `await fetch(...)`
RunCode ==
  /\ exec.pc \in {"idle", "done"}
  /\ exec' = IF exec.supported
             THEN [exec EXCEPT !.pc = "fetch", !.isRunning = TRUE,
                               !.hasRun = TRUE, !.error = <<>>,
                               !.output = <<>>, !.via = "none",
                               !.data = NoResponse]
             ELSE [exec EXCEPT !.pc = "done", !.isRunning = FALSE,
                               !.hasRun = TRUE,
                               !.error = Message("languageNotSupported"),
                               !.output = <<>>, !.via = "unsupported",
                               !.data = NoResponse]
  /\ UNCHANGED <<uiVars, scan, fx, preview, store, resize, relay, flowVars>>

\* runCode after the response arrived with an ok status
ReceiveResponse(data) ==
  /\ exec.pc = "fetch"
  /\ exec' = [exec EXCEPT !.pc = "done", !.isRunning = FALSE,
                          !.error = ShowResponse(data).error,
                          !.output = ShowResponse(data).output,
                          !.via = "response", !.data = data]
  /\ UNCHANGED <<uiVars, scan, fx, preview, store, resize, relay, flowVars>>

\* runCode when fetch threw or the status was not ok: the catch block
FetchFailed ==
  /\ exec.pc = "fetch"
  /\ exec' = [exec EXCEPT !.pc = "done", !.isRunning = FALSE,
                          !.error = Message("error"), !.via = "catch"]
  /\ UNCHANGED <<uiVars, scan, fx, preview, store, resize, relay, flowVars>>

NextExec ==
  \/ RunCode
  \/ \E data \in Responses : ReceiveResponse(data)
  \/ FetchFailed

SpecExec == InitExec /\ [][NextExec]_vars

\* C15: for every response that holds a run or a compile output, a non-empty compile output is displayed as a
\* compilation error; otherwise a non-empty stderr with an empty stdout is
\* displayed as the error; otherwise stdout and stderr combined are displayed
\* as output, the canned success message when both are empty.
CompileOutputTakesPrecedence ==
  (/\ exec.pc = "done" /\ exec.via = "response"
   /\ \/ exec.data.run.present
      \/ exec.data.compile.present /\ exec.data.compile.output # <<>>) =>
    LET d == exec.data
        stdout == IF d.run.present THEN d.run.stdout ELSE <<>>
        stderr == IF d.run.present THEN d.run.stderr ELSE <<>>
        compile_output == IF d.compile.present THEN d.compile.output ELSE <<>>
    IN IF compile_output # <<>>
       THEN /\ exec.error = CompilationError \o compile_output
            /\ exec.output = <<>>
       ELSE IF stderr # <<>> /\ stdout = <<>>
       THEN exec.error = stderr /\ exec.output = <<>>
       ELSE /\ exec.error = <<>>
            /\ exec.output =
                 IF stdout = <<>> /\ stderr = <<>> THEN Message("programSuccess")
                 ELSE stdout \o (IF stderr # <<>> THEN NL \o stderr ELSE <<>>)

-----------------------------------------------------------------------------
(* App.handleSendMessage and the chat exchange specification               *)

\* ChatInput submit: handleSendMessage runs up to `await checkRateLimit()`
\* with activeConversationId and activeConversation of the current render in
\* its closure
SendMessage(t) ==
  /\ isAuthenticated /\ view = "chat"
  /\ ~isLoading
  /\ \E r \in ReqIds :
       /\ reqs[r].phase = "idle"
       /\ \A q \in ReqIds : q < r => reqs[q].phase # "idle"
       /\ LET found == /\ activeConversationId # Null
                       /\ activeConversationId \in DOMAIN conversations
          IN reqs' = [reqs EXCEPT ![r] =
               [phase |-> "sendcheck",
                conv |-> IF found THEN activeConversationId ELSE Null,
                msgs |-> IF found THEN conversations[activeConversationId]
                         ELSE <<>>,
                prev |-> <<>>, msgId |-> Null, newText |-> t]]
  /\ ev' = Other
  /\ UNCHANGED <<isAuthenticated, view, conversations, activeConversationId,
                 isLoading, appCanvasWidth, globalEditingId,
                 globalActiveCanvasId, comp, db, pureVars, flowVars>>

\* setConversations of the optimistic update of handleSendMessage
WithConversation(convs, c, msgs) ==
  IF c \in DOMAIN convs THEN SetMessages(convs, c, msgs)
  ELSE (c :> msgs) @@ convs

\* handleSendMessage after `await checkRateLimit()`: return when limited or
\* when the check threw, else the optimistic update
SendCheck(r, limited) ==
  /\ reqs[r].phase = "sendcheck"
  /\ IF limited
     THEN /\ reqs' = [reqs EXCEPT ![r] = DoneReq]
          /\ CommitCoord(Coord)
     ELSE LET q == reqs[r]
              c == IF q.conv = Null THEN NewConvId(r) ELSE q.conv
              updatedMessages ==
                q.msgs \o <<UserMsg(UserId(r), q.newText),
                            AiMsg(FreshId(r), Placeholder)>>
          IN /\ reqs' = [reqs EXCEPT ![r].phase = "sendwebhook", ![r].conv = c]
             /\ Commit(Coord, isAuthenticated, view,
                       IF q.conv = Null THEN c ELSE activeConversationId,
                       WithConversation(conversations, c, updatedMessages),
                       TRUE)
  /\ ev' = Other
  /\ UNCHANGED <<db, pureVars, flowVars>>

\* handleSendMessage after sendMessageToWebhook, incrementMessageCount and
\* getRateLimitStatus resolved
SendRespond(r, t) ==
  /\ reqs[r].phase = "sendwebhook"
  /\ LET c == reqs[r].conv
         final == SetMessages(conversations, c,
                    IF c \in DOMAIN conversations
                    THEN ReplaceText(conversations[c], FreshId(r), t)
                    ELSE <<>>)
     IN /\ Commit(Coord, isAuthenticated, view, activeConversationId, final, FALSE)
        /\ db' = IF c \in DOMAIN conversations
                 THEN (c :> final[c]) @@ db ELSE db
  /\ reqs' = [reqs EXCEPT ![r] = DoneReq]
  /\ ev' = Responded(r, t)
  /\ UNCHANGED <<pureVars, flowVars>>

\* handleSendMessage when incrementMessageCount or getRateLimitStatus threw:
\* the catch block logs, then setIsLoading(false)
SendFail(r) ==
  /\ reqs[r].phase = "sendwebhook"
  /\ Commit(Coord, isAuthenticated, view, activeConversationId, conversations,
            FALSE)
  /\ reqs' = [reqs EXCEPT ![r] = DoneReq]
  /\ ev' = Other
  /\ UNCHANGED <<db, pureVars, flowVars>>

NextChat ==
  \/ \E c \in ConvIds : SelectConv(c)
  \/ NewChat
  \/ \E c \in ConvIds : DeleteConversation(c)
  \/ \E t \in UserTexts : SendMessage(t)
  \/ \E r \in ReqIds, limited \in BOOLEAN : SendCheck(r, limited)
  \/ \E r \in ReqIds, t \in AiReplies : SendRespond(r, t)
  \/ \E r \in ReqIds : SendFail(r)
  \/ \E m \in MsgIds : StartEditing(m)
  \/ \E m \in MsgIds, t \in TypedTexts : TypeEdit(m, t)
  \/ \E m \in MsgIds : SaveEdit(m)
  \/ \E r \in ReqIds, limited \in BOOLEAN : EditCheck(r, limited)
  \/ \E r \in ReqIds, t \in AiReplies : EditRespond(r, t)
  \/ \E r \in ReqIds : EditFail(r)

SpecChat == Init /\ [][NextChat]_vars

\* the placeholder of exchange r, still holding '...', is in conversation c
StuckPlaceholder(r, c) ==
  \E i \in 1..Len(conversations[c]) :
    /\ conversations[c][i].id = FreshId(r)
    /\ conversations[c][i].text = Placeholder

\* C16: once a send or edit exchange has finished, no conversation holds the
\* placeholder AI message created for it.
NoStuckPlaceholder ==
  \A r \in ReqIds :
    reqs[r].phase = "done" =>
      \A c \in DOMAIN conversations : ~StuckPlaceholder(r, c)

\* C17: a response changes nothing but the text of the placeholder (matched
\* by message id) in the conversation it was requested for; every other
\* conversation, the current one included, is as it was.
ResponseKeyedByConversation ==
  ev.op = "respond" =>
    /\ DOMAIN conversations = DOMAIN ev.before
    /\ \A d \in DOMAIN conversations :
         /\ Len(conversations[d]) = Len(ev.before[d])
         /\ \A i \in 1..Len(conversations[d]) :
              IF d = ev.conv /\ ev.before[d][i].id = ev.m
              THEN conversations[d][i] = [ev.before[d][i] EXCEPT !.text = ev.text]
              ELSE conversations[d][i] = ev.before[d][i]

\* a response has been written into a conversation that is no longer the
\* current one, while another conversation is shown
ResponseKeyedByConversationWitness ==
  /\ ev.op = "respond"
  /\ ev.conv \in DOMAIN conversations
  /\ activeConversationId # Null /\ activeConversationId # ev.conv
  /\ \E i \in 1..Len(conversations[ev.conv]) :
       /\ conversations[ev.conv][i].id = ev.m
       /\ conversations[ev.conv][i].text = ev.text
       /\ ev.before[ev.conv][i].text = Placeholder

-----------------------------------------------------------------------------
(* supabaseStorage.saveConversation                                        *)

\* no row of the conversations table
NoRow == [present |-> FALSE]

Row(title, updated_at) ==
  [present |-> TRUE, title |-> title, updated_at |-> updated_at]

\* message lists of the conversation: as persisted by an earlier save, after
\* one more exchange, after an edit of the first message
SavedMessages == <<UserMsg(1, "q"), AiMsg(2, "plain")>>
LongerMessages == SavedMessages \o <<UserMsg(3, "q2"), AiMsg(4, "code")>>
EditedList == <<UserMsg(1, "q2"), AiMsg(7, "plain")>>

\* what the backend holds for the conversation before the call
Persisted ==
  {[row |-> NoRow, messages |-> <<>>],
   [row |-> Row("t", "t0"), messages |-> <<>>],
   [row |-> Row("t", "t0"), messages |-> SavedMessages]}

\* the conversation passed to saveConversation
Saved ==
  {[title |-> t, messages |-> ms] :
     t \in {"t", "t2"}, ms \in {<<>>, LongerMessages, EditedList}}

Ids(ms) == {ms[i].id : i \in 1..Len(ms)}

InitSave ==
  /\ UiInit
  /\ \E p \in Persisted, c \in Saved :
       store = [pc |-> "user", conversation |-> c, row |-> p.row,
                messages |-> p.messages, before |-> p, existing |-> FALSE,
                failedAt |-> "none"]
  /\ scan = Off /\ fx = Off /\ preview = Off /\ exec = Off /\ resize = Off /\ relay = Off
  /\ scanners = Off /\ input = Off /\ quota = Off /\ sends = Off

\* the catch block: log and rethrow
SaveThrows(s, step) == [s EXCEPT !.pc = "failed", !.failedAt = step]

\* supabase.auth.getUser()
GetUser(ok) ==
  /\ store.pc = "user"
  /\ store' = IF ok THEN [store EXCEPT !.pc = "select"]
              ELSE SaveThrows(store, "user")
  /\ UNCHANGED <<uiVars, scan, fx, preview, exec, resize, relay, flowVars>>

\* select('id').eq('id', conversation.id).single(): an error leaves data null
SelectExisting(ok) ==
  /\ store.pc = "select"
  /\ store' = [store EXCEPT !.pc = "row",
                            !.existing = ok /\ store.row.present]
  /\ UNCHANGED <<uiVars, scan, fx, preview, exec, resize, relay, flowVars>>

\* update of the row when it exists, insert otherwise; an insert of an id
\* that is present fails
WriteRow(ok) ==
  /\ store.pc = "row"
  /\ store' =
       IF store.existing
       THEN IF ok
            THEN [store EXCEPT !.pc = "delete",
                               !.row = Row(store.conversation.title, "t1")]
            ELSE SaveThrows(store, "update")
       ELSE IF ok /\ ~store.row.present
            THEN [store EXCEPT !.pc = "delete",
                               !.row = Row(store.conversation.title, "t0")]
            ELSE SaveThrows(store, "insert")
  /\ UNCHANGED <<uiVars, scan, fx, preview, exec, resize, relay, flowVars>>


\* delete().eq('conversation_id', conversation.id): the result is not looked at
DeleteMessages(ok) ==
  /\ store.pc = "delete"
  /\ store' = [store EXCEPT !.pc = "insert",
                            !.messages = IF ok THEN <<>> ELSE @]
  /\ UNCHANGED <<uiVars, scan, fx, preview, exec, resize, relay, flowVars>>

\* insert(messagesToInsert) when there are messages: one statement, which
\* fails as a whole on an id that is present
InsertMessages(ok) ==
  /\ store.pc = "insert"
  /\ LET ms == store.conversation.messages
     IN store' =
          IF Len(ms) = 0 THEN [store EXCEPT !.pc = "saved"]
          ELSE IF ok /\ Ids(ms) \cap Ids(store.messages) = {}
          THEN [store EXCEPT !.pc = "saved", !.messages = @ \o ms]
          ELSE SaveThrows(store, "messages")
  /\ UNCHANGED <<uiVars, scan, fx, preview, exec, resize, relay, flowVars>>

NextSave ==
  \/ \E ok \in BOOLEAN : GetUser(ok)
  \/ \E ok \in BOOLEAN : SelectExisting(ok)
  \/ \E ok \in BOOLEAN : WriteRow(ok)
  \/ \E ok \in BOOLEAN : DeleteMessages(ok)
  \/ \E ok \in BOOLEAN : InsertMessages(ok)

SpecSave == InitSave /\ [][NextSave]_vars

\* C18: when saveConversation failed, the conversation row and the messages
\* persisted for the conversation are what they were before the call.
FailedSaveKeepsPersisted ==
  store.pc = "failed" =>
    /\ store.row = store.before.row
    /\ store.messages = store.before.messages

-----------------------------------------------------------------------------
(* The console relay of ReactPreview (part_002).  The variable `relay` is  *)
(* the state of the ReactPreview of the displayed canvas and of the       *)
(* message channel from its sandboxed frame: the entries posted so far    *)
(* and the ones still in flight.  The conversations are the stored ones;   *)
(* their code message is taken to be React code, so that its canvas panel  *)
(* is a ReactPreviewCanvas.  Date.now() of an entry is left out.           *)

MaxPosts == 3

Levels == {"log", "warn", "error"}

\* what a patched console method posts, and a message of another sender
ConsoleEntry(level, n) == [type |-> "console", level |-> level, message |-> n]
OtherEntry(n) == [type |-> "other", level |-> "log", message |-> n]

\* useState initialisers of a ReactPreview that mounts for the canvas of m
PreviewMounted(m) ==
  [pc |-> "on", owner |-> m, consoleLogs |-> <<>>, showConsole |-> FALSE,
   posted |-> <<>>, inbox |-> <<>>, last |-> "mount"]

\* the ReactPreview rendered is the one of the displayed canvas
PreviewSynced ==
  IF relay.pc = "on" THEN Displayed = {relay.owner} ELSE Displayed = {}

\* a handler that buffers the entry but never reveals the panel
handleMessageNoReveal(r, data) ==
  IF data.type = "console"
  THEN [r EXCEPT !.consoleLogs =
                   Append(@, [type |-> data.level, message |-> data.message])]
  ELSE r

\* the 'message' listener of ReactPreview
handleMessage(r, data) ==
  IF data.type = "console"
  THEN [r EXCEPT !.consoleLogs =
                   Append(@, [type |-> data.level, message |-> data.message]),
                 !.showConsole = IF data.level = "error" THEN TRUE ELSE @]
  ELSE r

\* the commit that displayed the canvas of m mounts its ReactPreview
MountPreview(m) ==
  /\ relay.pc = "off"
  /\ m \in Displayed
  /\ relay' = PreviewMounted(m)
  /\ UNCHANGED <<uiVars, scan, fx, preview, exec, store, resize, flowVars>>

\* the commit that removed the canvas unmounts it with its frame
UnmountPreview ==
  /\ relay.pc = "on"
  /\ relay.owner \notin Displayed
  /\ relay' = Off
  /\ UNCHANGED <<uiVars, scan, fx, preview, exec, store, resize, flowVars>>

\* console.log, console.warn or console.error runs in the sandbox
SandboxPost(level) ==
  /\ relay.pc = "on" /\ PreviewSynced
  /\ Len(relay.posted) < MaxPosts
  /\ LET e == ConsoleEntry(level, Len(relay.posted) + 1)
     IN relay' = [relay EXCEPT !.posted = Append(@, e),
                               !.inbox = Append(@, e), !.last = "post"]
  /\ UNCHANGED <<uiVars, scan, fx, preview, exec, store, resize, flowVars>>

\* a message that is no console entry reaches the window
WindowPost ==
  /\ relay.pc = "on" /\ PreviewSynced
  /\ Len(relay.posted) < MaxPosts
  /\ LET e == OtherEntry(Len(relay.posted) + 1)
     IN relay' = [relay EXCEPT !.posted = Append(@, e),
                               !.inbox = Append(@, e), !.last = "post"]
  /\ UNCHANGED <<uiVars, scan, fx, preview, exec, store, resize, flowVars>>

\* the oldest message in flight is delivered to the listener
HandleMessage ==
  /\ relay.pc = "on" /\ PreviewSynced
  /\ relay.inbox # <<>>
  /\ relay' = [handleMessage(relay, Head(relay.inbox))
                 EXCEPT !.inbox = Tail(@), !.last = "handle"]
  /\ UNCHANGED <<uiVars, scan, fx, preview, exec, store, resize, flowVars>>

\* the Console button
ToggleConsole ==
  /\ relay.pc = "on" /\ PreviewSynced
  /\ relay' = [relay EXCEPT !.showConsole = ~@, !.last = "toggle"]
  /\ UNCHANGED <<uiVars, scan, fx, preview, exec, store, resize, flowVars>>

NextConsole ==
  \/ PreviewSynced /\ \E c \in 1..2 : SelectConv(c)
  \/ PreviewSynced /\ \E m \in MsgIds : OpenCanvas(m)
  \/ PreviewSynced /\ \E m \in MsgIds : CloseCanvas(m)
  \/ PreviewSynced /\ \E m \in MsgIds : TimerFire(m)
  \/ \E m \in MsgIds : MountPreview(m)
  \/ UnmountPreview
  \/ \E level \in Levels : SandboxPost(level)
  \/ WindowPost
  \/ HandleMessage
  \/ ToggleConsole

SpecConsole == Init /\ [][NextConsole]_vars

\* the messages delivered to the host window so far
Delivered == SubSeq(relay.posted, 1, Len(relay.posted) - Len(relay.inbox))

\* the log entries of the console entries of a sequence of messages
LogsOf(ms) ==
  LET cs == SelectSeq(ms, LAMBDA e : e.type = "console")
  IN [i \in 1..Len(cs) |-> [type |-> cs[i].level, message |-> cs[i].message]]

ErrorJustHandled ==
  /\ relay.pc = "on" /\ relay.last = "handle"
  /\ Delivered[Len(Delivered)].type = "console"
  /\ Delivered[Len(Delivered)].level = "error"

\* the buffer holds the delivered console entries in arrival order, and the
\* panel is revealed when an error entry was just handled
RelayBuffersInOrder ==
  relay.pc = "on" =>
    /\ relay.consoleLogs = LogsOf(Delivered)
    /\ ErrorJustHandled => relay.showConsole

\* the step that handles an error entry leaves the canvas as it is
ErrorKeepsCanvas ==
  (/\ relay.pc = "on" /\ relay'.pc = "on"
   /\ relay'.inbox # relay.inbox /\ relay'.last = "handle"
   /\ Head(relay.inbox).level = "error")
  => /\ UNCHANGED <<comp, globalActiveCanvasId, appCanvasWidth>>
     /\ CanvasShown(comp', relay.owner)

-----------------------------------------------------------------------------
(* Resizing the canvas panel (VibeCodingCanvas, part_012; the same code in *)
(* ReactPreviewCanvas, part_002).  The variable `resize` is the state of   *)
(* the panel of the displayed canvas: its own canvasWidth and isResizing,  *)
(* and the position of the last mousemove event in percent of the window   *)
(* width.  The pointer can leave the window while the button is held.      *)

ResizePointerXs == {-10, 30, 50, 80}

\* useState initialisers of a canvas panel that mounts for message m
PanelMounted(m) ==
  [pc |-> "on", owner |-> m, canvasWidth |-> DefaultWidth,
   isResizing |-> FALSE, pointerX |-> 50, last |-> "mount"]

\* the panel rendered is the one of the displayed canvas
PanelSynced ==
  IF resize.pc = "on" THEN Displayed = {resize.owner} ELSE Displayed = {}

\* the commit that displayed the canvas of m mounts its panel
MountPanel(m) ==
  /\ resize.pc = "off"
  /\ m \in Displayed
  /\ resize' = PanelMounted(m)
  /\ UNCHANGED <<uiVars, scan, fx, preview, exec, store, relay, flowVars>>

\* the commit that removed the canvas unmounts the panel; the cleanup of
\* its effect removes the window listeners
UnmountPanel ==
  /\ resize.pc = "on"
  /\ resize.owner \notin Displayed
  /\ resize' = Off
  /\ UNCHANGED <<uiVars, scan, fx, preview, exec, store, relay, flowVars>>

\* onMouseDown of the resize handle
MouseDown ==
  /\ resize.pc = "on" /\ PanelSynced
  /\ resize' = [resize EXCEPT !.isResizing = TRUE, !.last = "down"]
  /\ UNCHANGED <<uiVars, scan, fx, preview, exec, store, relay, flowVars>>

\* a mousemove event on the window with the pointer at x: handleMouseMove
\* is registered only while isResizing, and then sets the panel's width and
\* calls onWidthChange = handleWidthChange of the ChatMessage
MouseMove(x) ==
  /\ resize.pc = "on" /\ PanelSynced
  /\ IF resize.isResizing
     THEN /\ resize' = [resize EXCEPT !.canvasWidth = ClampedWidth(x),
                                      !.pointerX = x, !.last = "move"]
          /\ CommitCoord(handleWidthChange(Coord, resize.owner, ClampedWidth(x)))
          /\ ev' = Other
          /\ UNCHANGED <<reqs, db>>
     ELSE /\ resize' = [resize EXCEPT !.pointerX = x, !.last = "move"]
          /\ UNCHANGED uiVars
  /\ UNCHANGED <<scan, fx, preview, exec, store, relay, flowVars>>

\* a mouseup event on the window: handleMouseUp, registered while isResizing
MouseUp ==
  /\ resize.pc = "on" /\ PanelSynced
  /\ resize' = [resize EXCEPT !.isResizing = FALSE, !.last = "up"]
  /\ UNCHANGED <<uiVars, scan, fx, preview, exec, store, relay, flowVars>>

NextResize ==
  \/ PanelSynced /\ \E c \in 1..2 : SelectConv(c)
  \/ PanelSynced /\ \E m \in MsgIds : OpenCanvas(m)
  \/ PanelSynced /\ \E m \in MsgIds : CloseCanvas(m)
  \/ PanelSynced /\ \E m \in MsgIds : TimerFire(m)
  \/ \E m \in MsgIds : MountPanel(m)
  \/ UnmountPanel
  \/ MouseDown
  \/ \E x \in ResizePointerXs : MouseMove(x)
  \/ MouseUp

SpecResize == Init /\ [][NextResize]_vars

WidthRange == MinWidth..MaxWidth

\* the reserved width and every width a broadcast can carry are in range
WidthsInRange ==
  /\ appCanvasWidth = 0 \/ appCanvasWidth \in WidthRange
  /\ Displayed # {} => appCanvasWidth \in WidthRange
  /\ \A m \in Mounted : comp[m].canvasWidth \in WidthRange
                        /\ comp[m].pWidth \in WidthRange
  /\ resize.pc = "on" => resize.canvasWidth \in WidthRange

\* a step that moves the pointer while the panel stays mounted
PointerMoves ==
  /\ resize.pc = "on" /\ resize'.pc = "on"
  /\ resize'.last = "move"
  /\ resize' # resize

\* a width changes only by a pointer move during a drag, to the clamped
\* position of the pointer; a move outside a drag changes no width
WidthStep ==
  /\ \A m \in MsgIds :
       (comp[m].mounted /\ comp'[m].mounted
        /\ comp'[m].canvasWidth # comp[m].canvasWidth)
       => /\ PointerMoves /\ resize.isResizing /\ resize.owner = m
          /\ comp'[m].canvasWidth = ClampedWidth(resize'.pointerX)
  /\ (Displayed # {} /\ Displayed' = Displayed
      /\ appCanvasWidth' # appCanvasWidth)
     => /\ PointerMoves /\ resize.isResizing
        /\ appCanvasWidth' = ClampedWidth(resize'.pointerX)
  /\ (PointerMoves /\ ~resize.isResizing)
     => /\ UNCHANGED <<comp, appCanvasWidth, globalActiveCanvasId>>
        /\ resize'.canvasWidth = resize.canvasWidth

\* C20: the reserved width is 0 or within [25,75] and every width broadcast
\* for an open canvas is within [25,75]; the width of a canvas changes only
\* by a pointer move while the resize handle is dragged, and a pointer move
\* outside a drag leaves every width unchanged.
CanvasWidthBounded ==
  /\ []WidthsInRange
  /\ [][WidthStep]_vars

\* a drag with the pointer outside the window set the reserved width to the
\* upper bound, and the drag has ended
CanvasWidthBoundedWitness ==
  /\ resize.pc = "on" /\ PanelSynced
  /\ resize.last = "up" /\ ~resize.isResizing
  /\ resize.pointerX = -10
  /\ appCanvasWidth = MaxWidth
  /\ comp[resize.owner].canvasWidth = MaxWidth

-----------------------------------------------------------------------------
(* The four fence scanners of part_011 on one text: the scan of            *)
(* parseAiResponse (ScanIteration above), the scan of extractCodeFiles     *)
(* before its allow-list test, extractUserCodeBlocks, and the loop of      *)
(* renderUserMessageText, which cuts each block out of the text it scans.  *)
(* The inner loop that looks for the closing fence is the same text in     *)
(* the four functions (FindCodeEnd).                                       *)

\* one iteration of extractCodeFiles, with what it computes before the
\* canvasLanguages test
FileScanIteration(t, pos) ==
  LET codeStart == IndexOf(t, Fence, pos)
      langStart == codeStart + 3
      langEnd == IndexOf(t, NL, langStart)
      language == Trim(Slice(t, langStart, langEnd))
      contentStart == langEnd + 1
      codeEnd == FindCodeEnd(t, contentStart)
      content == Trim(Slice(t, contentStart, codeEnd))
  IN IF codeStart = -1 THEN [kind |-> "nofence", pos |-> pos, block |-> NoBlock]
     ELSE IF langEnd = -1
     THEN [kind |-> "nonewline", pos |-> codeStart + 3, block |-> NoBlock]
     ELSE IF codeEnd = -1 THEN [kind |-> "unclosed", pos |-> pos, block |-> NoBlock]
     ELSE [kind |-> "block", pos |-> codeEnd + 3,
           block |-> [type |-> "code", start |-> codeStart, end |-> codeEnd + 3,
                      content |-> [language |-> language, code |-> content]]]

\* one iteration of extractUserCodeBlocks
UserIteration(t, pos) ==
  LET codeStart == IndexOf(t, Fence, pos)
      langStart == codeStart + 3
      langEnd == IndexOf(t, NL, langStart)
      language == Trim(Slice(t, langStart, langEnd))
      contentStart == langEnd + 1
      codeEnd == FindCodeEnd(t, contentStart)
      code == Trim(Slice(t, contentStart, codeEnd))
  IN IF codeStart = -1 THEN [kind |-> "nofence", pos |-> pos, block |-> NoBlock]
     ELSE IF langEnd = -1
     THEN [kind |-> "nonewline", pos |-> codeStart + 3, block |-> NoBlock]
     ELSE IF codeEnd = -1 THEN [kind |-> "unclosed", pos |-> pos, block |-> NoBlock]
     ELSE [kind |-> "block", pos |-> codeEnd + 3,
           block |-> [type |-> "code", start |-> codeStart, end |-> codeEnd + 3,
                      content |-> [language |-> IF language = <<>> THEN TextTag
                                                ELSE language,
                                   code |-> code]]]

\* a strip loop that goes on behind the place of the removed block
StripIterationSkip(textOnly, pos) ==
  LET codeStart == IndexOf(textOnly, Fence, pos)
      langStart == codeStart + 3
      langEnd == IndexOf(textOnly, NL, langStart)
      contentStart == langEnd + 1
      codeEnd == FindCodeEnd(textOnly, contentStart)
  IN IF codeStart = -1
     THEN [kind |-> "nofence", pos |-> pos, textOnly |-> textOnly,
           start |-> 0, end |-> 0]
     ELSE IF langEnd = -1
     THEN [kind |-> "nonewline", pos |-> codeStart + 3, textOnly |-> textOnly,
           start |-> 0, end |-> 0]
     ELSE IF codeEnd = -1
     THEN [kind |-> "unclosed", pos |-> pos, textOnly |-> textOnly,
           start |-> 0, end |-> 0]
     ELSE [kind |-> "block", pos |-> codeEnd + 3,
           textOnly |-> Slice(textOnly, 0, codeStart)
                          \o Slice(textOnly, codeEnd + 3, Len(textOnly)),
           start |-> codeStart, end |-> codeEnd + 3]

\* one iteration of the loop of renderUserMessageText: the block found in
\* the current textOnly is cut out and the scan goes on at its place
StripIteration(textOnly, pos) ==
  LET codeStart == IndexOf(textOnly, Fence, pos)
      langStart == codeStart + 3
      langEnd == IndexOf(textOnly, NL, langStart)
      contentStart == langEnd + 1
      codeEnd == FindCodeEnd(textOnly, contentStart)
  IN IF codeStart = -1
     THEN [kind |-> "nofence", pos |-> pos, textOnly |-> textOnly,
           start |-> 0, end |-> 0]
     ELSE IF langEnd = -1
     THEN [kind |-> "nonewline", pos |-> codeStart + 3, textOnly |-> textOnly,
           start |-> 0, end |-> 0]
     ELSE IF codeEnd = -1
     THEN [kind |-> "unclosed", pos |-> pos, textOnly |-> textOnly,
           start |-> 0, end |-> 0]
     ELSE [kind |-> "block", pos |-> codeStart,
           textOnly |-> Slice(textOnly, 0, codeStart)
                          \o Slice(textOnly, codeEnd + 3, Len(textOnly)),
           start |-> codeStart, end |-> codeEnd + 3]

\* a scanner at the start of its loop
ScannerStart(t) == [pos |-> 0, blocks |-> <<>>, textOnly |-> t]

ScannersInput(t) ==
  [pc |-> "segmenter", text |-> t, segmenter |-> ScannerStart(t),
   files |-> ScannerStart(t), user |-> ScannerStart(t),
   strip |-> ScannerStart(t), stripped |-> <<>>]

InitScanners ==
  /\ UiInit
  /\ \/ \E n \in 0..MaxBlocks : \E w \in WellFormed(n) :
          scanners = ScannersInput(w.text)
     \/ \E t \in LineTexts \cup CharTexts : scanners = ScannersInput(t)
  /\ scan = Off /\ fx = Off /\ preview = Off /\ exec = Off /\ store = Off
  /\ resize = Off /\ relay = Off /\ input = Off /\ quota = Off /\ sends = Off

\* the state of a scanner after an iteration that gave r
AfterIteration(s, r) ==
  [s EXCEPT !.pos = r.pos,
            !.blocks = IF r.kind = "block" THEN Append(@, r.block) ELSE @]

\* the loop ends when pos reached the end or the iteration executed `break`
LoopEnds(t, pos, kind) == ~(pos < Len(t)) \/ kind \in {"nofence", "unclosed"}

\* the while loop of parseAiResponse
SegmenterStep ==
  /\ scanners.pc = "segmenter"
  /\ LET s == scanners.segmenter
         r == ScanIteration(scanners.text, s.pos)
     IN IF ~(s.pos < Len(scanners.text))
        THEN scanners' = [scanners EXCEPT !.pc = "files"]
        ELSE scanners' = [scanners EXCEPT
               !.segmenter = AfterIteration(s, r),
               !.pc = IF LoopEnds(scanners.text, s.pos, r.kind)
                      THEN "files" ELSE @]
  /\ UNCHANGED <<uiVars, pureVars, input, quota, sends>>

\* the while loop of extractCodeFiles
FilesStep ==
  /\ scanners.pc = "files"
  /\ LET s == scanners.files
         r == FileScanIteration(scanners.text, s.pos)
     IN IF ~(s.pos < Len(scanners.text))
        THEN scanners' = [scanners EXCEPT !.pc = "user"]
        ELSE scanners' = [scanners EXCEPT
               !.files = AfterIteration(s, r),
               !.pc = IF LoopEnds(scanners.text, s.pos, r.kind)
                      THEN "user" ELSE @]
  /\ UNCHANGED <<uiVars, pureVars, input, quota, sends>>

\* the while loop of extractUserCodeBlocks
UserStep ==
  /\ scanners.pc = "user"
  /\ LET s == scanners.user
         r == UserIteration(scanners.text, s.pos)
     IN IF ~(s.pos < Len(scanners.text))
        THEN scanners' = [scanners EXCEPT !.pc = "strip"]
        ELSE scanners' = [scanners EXCEPT
               !.user = AfterIteration(s, r),
               !.pc = IF LoopEnds(scanners.text, s.pos, r.kind)
                      THEN "strip" ELSE @]
  /\ UNCHANGED <<uiVars, pureVars, input, quota, sends>>

\* the while loop of renderUserMessageText; a block it removes is recorded
\* with its boundaries in the message text, which are its boundaries in
\* textOnly moved by the characters removed before it
StripStep ==
  /\ scanners.pc = "strip"
  /\ LET s == scanners.strip
         r == StripIteration(s.textOnly, s.pos)
         removed == Len(scanners.text) - Len(s.textOnly)
         b == <<r.start + removed, r.end + removed>>
     IN IF scanners.user.blocks = <<>>
        THEN scanners' = [scanners EXCEPT !.pc = "done",
                                          !.stripped = scanners.text]
        ELSE IF ~(s.pos < Len(s.textOnly))
        THEN scanners' = [scanners EXCEPT !.pc = "done",
                                          !.stripped = Trim(s.textOnly)]
        ELSE scanners' = [scanners EXCEPT
               !.strip = [pos |-> r.pos, textOnly |-> r.textOnly,
                          blocks |-> IF r.kind = "block"
                                     THEN Append(s.blocks, b) ELSE s.blocks],
               !.stripped = IF LoopEnds(s.textOnly, s.pos, r.kind)
                            THEN Trim(r.textOnly) ELSE @,
               !.pc = IF LoopEnds(s.textOnly, s.pos, r.kind) THEN "done" ELSE @]
  /\ UNCHANGED <<uiVars, pureVars, input, quota, sends>>

NextScanners == SegmenterStep \/ FilesStep \/ UserStep \/ StripStep

SpecScanners == InitScanners /\ [][NextScanners]_vars

\* the boundaries, the tags and the contents of a sequence of blocks
Bounds(bs) == [i \in 1..Len(bs) |-> <<bs[i].start, bs[i].end>>]
TagsOf(bs) == [i \in 1..Len(bs) |-> bs[i].content.language]
CodesOf(bs) == [i \in 1..Len(bs) |-> bs[i].content.code]

\* the text without the characters of the blocks
RECURSIVE Without(_, _, _)
Without(t, bs, from) ==
  IF bs = <<>> THEN Slice(t, from, Len(t))
  ELSE Slice(t, from, bs[1].start) \o Without(t, Tail(bs), bs[1].end)

\* the four scanners find the same boundaries and the three extractors the
\* same trimmed contents; the strip helper returns the text without them
SameBlocks ==
  LET sg == scanners.segmenter.blocks
      fl == scanners.files.blocks
      us == scanners.user.blocks
      st == scanners.strip.blocks
  IN /\ Bounds(fl) = Bounds(sg) /\ Bounds(us) = Bounds(sg)
     /\ us # <<>> => st = Bounds(sg)
     /\ CodesOf(fl) = CodesOf(sg) /\ CodesOf(us) = CodesOf(sg)
     /\ scanners.stripped = IF sg = <<>> THEN scanners.text
                            ELSE Trim(Without(scanners.text, sg, 0))

\* the tag 'text' the segmenter and the user extractor give an untagged block
Defaulted(tag) == IF tag = <<>> THEN TextTag ELSE tag

\* C21 as stated: on every text the four scanners have the same boundaries,
\* the same tags and the same trimmed contents.
ScannersAgree ==
  scanners.pc = "done" =>
    /\ SameBlocks
    /\ TagsOf(scanners.user.blocks) = TagsOf(scanners.segmenter.blocks)
    /\ TagsOf(scanners.files.blocks) = TagsOf(scanners.segmenter.blocks)

\* C21, amended: on every text the four scanners have the same boundaries
\* and the same trimmed contents; the segmenter and the user extractor have
\* the same tags, which are the tags of the file extractor except that they
\* read 'text' where the file extractor has the empty tag of an untagged block.
ScannersAgreeUpToDefaultTag ==
  scanners.pc = "done" =>
    /\ SameBlocks
    /\ TagsOf(scanners.user.blocks) = TagsOf(scanners.segmenter.blocks)
    /\ \A i \in 1..Len(scanners.files.blocks) :
         Defaulted(scanners.files.blocks[i].content.language)
           = scanners.segmenter.blocks[i].content.language

\* two blocks were found with prose between them, the first one untagged
ScannersAgreeWitness ==
  /\ scanners.pc = "done"
  /\ Len(scanners.strip.blocks) = 2
  /\ Len(scanners.segmenter.blocks) = 2
  /\ scanners.strip.blocks[2][1] > scanners.strip.blocks[1][2]
  /\ scanners.files.blocks[1].content.language = <<>>
  /\ scanners.files.blocks[2].content.language # <<>>
  /\ scanners.stripped # <<>>

-----------------------------------------------------------------------------
(* Overlapping calls of handleSendMessage in one conversation (App.tsx).   *)
(* The variable `sends` holds the messages of the active conversation in   *)
(* the App state and, for each call, its position and what its closure     *)
(* holds: handleSendMessage is the callback of the last render, so         *)
(* `activeConversation` is the conversation as rendered when the call      *)
(* started.  The resend button of a user message is rendered whatever      *)
(* isLoading is (part_011:637-648).                                        *)

MaxSends == 2

SendIds == 1..MaxSends

\* crypto.randomUUID() of userMessage and of aiLoadingMessage of call k
SendUserId(k) == 2 * k + 1
SendAiId(k) == 2 * k + 2

IdleSend == [phase |-> "idle", closure |-> <<>>, text |-> "", reply |-> ""]

InitSends ==
  /\ UiInit
  /\ sends = [messages |-> <<UserMsg(1, "q"), AiMsg(2, "plain")>>,
              isLoading |-> FALSE,
              calls |-> [k \in SendIds |-> IdleSend]]
  /\ scan = Off /\ fx = Off /\ preview = Off /\ exec = Off /\ store = Off
  /\ resize = Off /\ relay = Off /\ scanners = Off /\ input = Off /\ quota = Off

\* onResendMessage(message.text) of a rendered user message, or a send from
\* the input: handleSendMessage starts and awaits checkRateLimit
ResendMessage(k, t) ==
  /\ sends.calls[k].phase = "idle"
  /\ \A j \in SendIds : j < k => sends.calls[j].phase # "idle"
  /\ \E i \in 1..Len(sends.messages) :
       sends.messages[i].sender = "user" /\ sends.messages[i].text = t
  /\ sends' = [sends EXCEPT !.calls[k] =
                 [phase |-> "check", closure |-> sends.messages, text |-> t,
                  reply |-> ""]]
  /\ UNCHANGED <<uiVars, pureVars, scanners, input, quota>>

\* after `await checkRateLimit()`: return when limited, else
\* setIsLoading(true) and the optimistic update from the closure
CheckedSend(k, limited) ==
  /\ sends.calls[k].phase = "check"
  /\ IF limited
     THEN sends' = [sends EXCEPT !.calls[k].phase = "returned"]
     ELSE LET c == sends.calls[k]
              updatedMessages ==
                c.closure \o <<UserMsg(SendUserId(k), c.text),
                               AiMsg(SendAiId(k), Placeholder)>>
          IN sends' = [sends EXCEPT !.messages = updatedMessages,
                                    !.isLoading = TRUE,
                                    !.calls[k].phase = "webhook"]
  /\ UNCHANGED <<uiVars, pureVars, scanners, input, quota>>

\* after sendMessageToWebhook, incrementMessageCount and getRateLimitStatus:
\* the functional update replaces the text of the placeholder by its id
RespondedSend(k, t) ==
  /\ sends.calls[k].phase = "webhook"
  /\ sends' = [sends EXCEPT
       !.messages = ReplaceText(@, SendAiId(k), t),
       !.isLoading = FALSE,
       !.calls[k].phase = "responded", !.calls[k].reply = t]
  /\ UNCHANGED <<uiVars, pureVars, scanners, input, quota>>

\* incrementMessageCount or getRateLimitStatus threw: the catch logs
FailedSend(k) ==
  /\ sends.calls[k].phase = "webhook"
  /\ sends' = [sends EXCEPT !.isLoading = FALSE, !.calls[k].phase = "failed"]
  /\ UNCHANGED <<uiVars, pureVars, scanners, input, quota>>

NextSends ==
  \/ \E k \in SendIds, t \in UserTexts : ResendMessage(k, t)
  \/ \E k \in SendIds, limited \in BOOLEAN : CheckedSend(k, limited)
  \/ \E k \in SendIds, t \in AiReplies : RespondedSend(k, t)
  \/ \E k \in SendIds : FailedSend(k)

SpecSends == InitSends /\ [][NextSends]_vars

HasMessage(msgs, m) == \E i \in 1..Len(msgs) : msgs[i] = m

\* C22: an exchange whose response was delivered stays in the conversation,
\* whatever other send overlapped it: the conversation holds its user
\* message and its AI message with the delivered text.
NoLostUpdate ==
  \A k \in SendIds :
    sends.calls[k].phase = "responded" =>
      /\ HasMessage(sends.messages, UserMsg(SendUserId(k), sends.calls[k].text))
      /\ HasMessage(sends.messages, AiMsg(SendAiId(k), sends.calls[k].reply))

-----------------------------------------------------------------------------
(* Properties of the coordinator under Spec                                *)

\* C23: after an operation that dispatched 'canvas-state-change', the
\* module-level active canvas id is the id the broadcast carried (the opened
\* message after an open or an auto-open, null after Sidebar.handleNewChat),
\* and every mounted message holds the module-level id.
BroadcastSetsActiveId ==
  /\ ev.op \in {"open", "auto"} => globalActiveCanvasId = ev.m
  /\ ev.op = "newchat" => globalActiveCanvasId = Null
  /\ \A m \in Mounted : comp[m].globalActiveCanvas = globalActiveCanvasId

\* C24: when no mounted message is in edit mode, the editing id every
\* mounted message observes is null, so that its edit and resend buttons
\* are enabled.
EditingNeverBlocked ==
  Editing = {} => \A m \in Mounted : comp[m].globalEditingId = Null

-----------------------------------------------------------------------------
(* ReactPreview bundle: the entry component of the sandbox                 *)

\* the code declares an identifier literally named App, by a function
\* declaration or a const assignment (the exports are removed from a bundle)
DefinesApp(code) ==
  \E i \in 0..Len(code) :
    \/ AppAt(code, AfterKeyword(code, i, KwFunction))
    \/ LET j == AfterKeyword(code, i, KwConst)
           k == RunEnd(code, j + 3, Whitespace)
       IN AppAt(code, j) /\ k < Len(code) /\ At(code, k) = "="

\* C25: a bundle assembled without an error declares an identifier named
\* exactly App, so that root.render(<App />) of the sandbox refers to a
\* defined component.
EntryComponentDefined ==
  (preview.pc = "done" /\ preview.error = <<>>) =>
    DefinesApp(preview.bundle.code)

-----------------------------------------------------------------------------
(* Canvas panel: the width the page reserves and the width of the panel    *)

\* C26: when a canvas panel is displayed, the width App reserves equals the
\* width at which the panel is drawn (its own canvasWidth), and when no
\* panel is displayed the reserved width is 0.
ReservedMatchesDisplayed ==
  PanelSynced =>
    IF resize.pc = "on" THEN appCanvasWidth = resize.canvasWidth
    ELSE appCanvasWidth = 0

-----------------------------------------------------------------------------
(* ChatInput (ChatInput.tsx): pasted code blocks and the message sent.     *)
(* The variable `input` holds text and codeBlocks of the component and,   *)
(* once the form was submitted, the message given to onSendMessage.  A     *)
(* paste is one that handlePaste takes for code (more than 150 characters  *)
(* and isLikelyCode), its content stands for the pasted text; no pasted    *)
(* content holds a $, which String.replace would expand.                   *)

MaxPastes == 3

\* what the user typed before pasting
InputTexts == {<<>>, <<"h", "i">>}

\* pasted texts, with the language detectLanguage finds in them
PastedCode ==
  {[content |-> <<"x", "=", "1">>, language |-> <<"j", "s">>],
   [content |-> <<"y", "=", "2">>, language |-> <<>>]}

DigitChar(n) == <<"1", "2", "3", "4", "5">>[n]

\* `[Code Block ${n}]`
BlockPlaceholder(n) == <<"[", "C", "o", "d", "e", " ", "B", "l", "o", "c", "k", " ">> \o <<DigitChar(n), "]">>

\* codeSection: two line breaks, the fence with block.language || '', the
\* content on its own lines, the closing fence
CodeSection(block) ==
  <<"\n", "\n">> \o Fence \o block.language \o NL \o block.content \o NL \o Fence

\* s.replace(pat, by) with a string pattern: the first occurrence only
ReplaceFirst(s, pat, by) ==
  LET i == IndexOf(s, pat, 0)
  IN IF i = -1 THEN s
     ELSE Slice(s, 0, i) \o by \o Slice(s, i + Len(pat), Len(s))

InitInput ==
  /\ UiInit
  /\ \E t \in InputTexts :
       input = [pc |-> "edit", text |-> t, codeBlocks |-> <<>>, pasted |-> 0,
                attached |-> <<>>, sent |-> <<>>]
  /\ scan = Off /\ fx = Off /\ preview = Off /\ exec = Off /\ store = Off
  /\ resize = Off /\ relay = Off /\ scanners = Off /\ quota = Off /\ sends = Off

\* handlePaste of a text taken for code; the block keeps the number of the
\* placeholder written for it
HandlePaste(code) ==
  /\ input.pc = "edit"
  /\ input.pasted < MaxPastes
  /\ LET n == Len(input.codeBlocks) + 1
         newBlock == [id |-> input.pasted + 1, content |-> code.content,
                      language |-> code.language, shown |-> n]
     IN input' = [input EXCEPT
          !.pasted = @ + 1,
          !.codeBlocks = Append(@, newBlock),
          !.text = @ \o (IF @ # <<>> THEN <<"\n", "\n">> ELSE <<>>)
                     \o BlockPlaceholder(n)]
  /\ UNCHANGED <<uiVars, pureVars, scanners, quota, sends>>

\* removeCodeBlock(id) of an attached block
RemoveCodeBlock(id) ==
  /\ input.pc = "edit"
  /\ \E i \in 1..Len(input.codeBlocks) : input.codeBlocks[i].id = id
  /\ LET blockIndex ==
           (CHOOSE i \in 1..Len(input.codeBlocks) :
              input.codeBlocks[i].id = id) - 1
     IN input' = [input EXCEPT
          !.codeBlocks = SelectSeq(@, LAMBDA b : b.id # id),
          !.text = Trim(ReplaceFirst(@, BlockPlaceholder(blockIndex + 1), <<>>))]
  /\ UNCHANGED <<uiVars, pureVars, scanners, quota, sends>>

\* the forEach of handleSubmit over the blocks from the 0-based index on
RECURSIVE FinalMessage(_, _, _)
FinalMessage(finalMessage, blocks, index) ==
  IF index >= Len(blocks) THEN finalMessage
  ELSE FinalMessage(ReplaceFirst(finalMessage, BlockPlaceholder(index + 1),
                                 CodeSection(blocks[index + 1])),
                    blocks, index + 1)

\* handleSubmit with isLoading false
HandleSubmit ==
  /\ input.pc = "edit"
  /\ Trim(input.text) # <<>> \/ input.codeBlocks # <<>>
  /\ input' = [input EXCEPT
       !.pc = "sent",
       !.sent = FinalMessage(input.text, input.codeBlocks, 0),
       !.attached = input.codeBlocks,
       !.text = <<>>, !.codeBlocks = <<>>]
  /\ UNCHANGED <<uiVars, pureVars, scanners, quota, sends>>

NextInput ==
  \/ \E code \in PastedCode : HandlePaste(code)
  \/ \E id \in 1..MaxPastes : RemoveCodeBlock(id)
  \/ HandleSubmit

SpecInput == InitInput /\ [][NextInput]_vars

\* C27: the message given to onSendMessage holds the code section of every
\* block attached at submit time, and holds no '[Code Block n]' placeholder
\* written for an attached block.
AttachedBlocksAreSent ==
  input.pc = "sent" =>
    \A i \in 1..Len(input.attached) :
      /\ Contains(input.sent, CodeSection(input.attached[i]))
      /\ ~Contains(input.sent, BlockPlaceholder(input.attached[i].shown))

-----------------------------------------------------------------------------
(* Edit exchange: the rollback of a failed request                         *)

\* the step in which the catch block of handleEditMessage of request r runs
RollbackStep(r) ==
  /\ reqs[r].phase = "webhook"
  /\ reqs'[r].phase = "done"
  /\ ev'.op # "respond"

\* C28: the rollback of a failed edit exchange restores the edited
\* conversation to its messages before the edit and leaves the conversation
\* list otherwise as it is: no conversation is brought back or removed and no
\* other conversation is changed.
EditRollbackIsLocal ==
  [][\A r \in ReqIds :
       RollbackStep(r) =>
         /\ DOMAIN conversations' = DOMAIN conversations
         /\ \A c \in DOMAIN conversations :
              conversations'[c] = IF c = reqs[r].conv THEN reqs[r].msgs
                                  ELSE conversations[c]]_vars

-----------------------------------------------------------------------------
(* The rate limit (rateLimitServices.ts) as handleSendMessage and          *)
(* handleEditMessage use it.  The variable `quota` holds the rate_limits   *)
(* row of the user, whether its window has run out, the exchanges accepted *)
(* in the window, the conversations saved, and for each exchange its       *)
(* position.  The stored procedure increment_message_count is taken to add *)
(* one to message_count in one statement.                                  *)

MaxExchanges == 2

MAX_MESSAGES_PER_WINDOW == 50

ExchangeIds == 1..MaxExchanges

\* message_count of the row when the page is loaded
StoredCounts == {0, MAX_MESSAGES_PER_WINDOW - 1, MAX_MESSAGES_PER_WINDOW}

IdleExchange ==
  [phase |-> "idle", kind |-> "none", webhook |-> "none",
   incremented |-> FALSE, saved |-> FALSE]

InitQuota ==
  /\ UiInit
  /\ \E n \in StoredCounts :
       quota = [message_count |-> n, accepted |-> n, expired |-> FALSE,
                resets |-> 0, ops |-> [k \in ExchangeIds |-> IdleExchange]]
  /\ scan = Off /\ fx = Off /\ preview = Off /\ exec = Off /\ store = Off
  /\ resize = Off /\ relay = Off /\ scanners = Off /\ input = Off /\ sends = Off

\* checkRateLimit on row q: the row after the reset of a window that ran
\* out, and the isLimited it returns
checkRateLimit(q) ==
  LET row == IF q.expired
             THEN [q EXCEPT !.message_count = 0, !.accepted = 0,
                            !.expired = FALSE, !.resets = @ + 1]
             ELSE q
      messagesRemaining == MAX_MESSAGES_PER_WINDOW - row.message_count
  IN [row |-> row, isLimited |-> messagesRemaining <= 0]

\* RATE_LIMIT_WINDOW has passed since window_start
WindowExpires ==
  /\ ~quota.expired
  /\ quota.resets = 0
  /\ quota' = [quota EXCEPT !.expired = TRUE]
  /\ UNCHANGED <<uiVars, pureVars, scanners, input, sends>>

\* handleSendMessage (send, resend) or handleEditMessage is called
StartExchange(k, kind) ==
  /\ quota.ops[k].phase = "idle"
  /\ \A j \in ExchangeIds : j < k => quota.ops[j].phase # "idle"
  /\ quota' = [quota EXCEPT !.ops[k].phase = "check", !.ops[k].kind = kind]
  /\ UNCHANGED <<uiVars, pureVars, scanners, input, sends>>

\* `await checkRateLimit()` at the head of the handler: it returns when the
\* check threw or the user is limited, else the exchange goes on
CheckLimit(k, ok) ==
  /\ quota.ops[k].phase = "check"
  /\ LET r == checkRateLimit(quota)
     IN quota' =
          IF ~ok THEN [quota EXCEPT !.ops[k].phase = "refused"]
          ELSE IF r.isLimited THEN [r.row EXCEPT !.ops[k].phase = "refused"]
          ELSE [r.row EXCEPT !.ops[k].phase = "webhook", !.accepted = @ + 1]
  /\ UNCHANGED <<uiVars, pureVars, scanners, input, sends>>

\* `await sendMessageToWebhook(text)`: on a network error or a status that
\* is not ok it returns a text that describes the failure
WebhookReturns(k, ok) ==
  /\ quota.ops[k].phase = "webhook"
  /\ quota' = [quota EXCEPT
       !.ops[k].phase = "increment",
       !.ops[k].webhook = IF ok THEN "answered" ELSE "failed"]
  /\ UNCHANGED <<uiVars, pureVars, scanners, input, sends>>

\* `await incrementMessageCount()`: the rpc, or an error thrown to the catch
IncrementCount(k, ok) ==
  /\ quota.ops[k].phase = "increment"
  /\ quota' =
       IF ok THEN [quota EXCEPT !.message_count = @ + 1,
                                !.ops[k].incremented = TRUE,
                                !.ops[k].phase = "status"]
       ELSE [quota EXCEPT !.ops[k].phase = "failed"]
  /\ UNCHANGED <<uiVars, pureVars, scanners, input, sends>>

\* `await getRateLimitStatus()`, then the final setConversations, which
\* calls saveConversation with the text the webhook call returned
StatusAndSave(k, ok) ==
  /\ quota.ops[k].phase = "status"
  /\ quota' =
       IF ok THEN [checkRateLimit(quota).row EXCEPT !.ops[k].phase = "done",
                                                    !.ops[k].saved = TRUE]
       ELSE [quota EXCEPT !.ops[k].phase = "failed"]
  /\ UNCHANGED <<uiVars, pureVars, scanners, input, sends>>

NextQuota ==
  \/ WindowExpires
  \/ \E k \in ExchangeIds, kind \in {"send", "resend", "edit"} :
       StartExchange(k, kind)
  \/ \E k \in ExchangeIds, ok \in BOOLEAN : CheckLimit(k, ok)
  \/ \E k \in ExchangeIds, ok \in BOOLEAN : WebhookReturns(k, ok)
  \/ \E k \in ExchangeIds, ok \in BOOLEAN : IncrementCount(k, ok)
  \/ \E k \in ExchangeIds, ok \in BOOLEAN : StatusAndSave(k, ok)

SpecQuota == InitQuota /\ [][NextQuota]_vars

\* C29: an exchange whose webhook call failed increments no message count
\* and saves no conversation.
FailedExchangeCostsNothing ==
  \A k \in ExchangeIds :
    quota.ops[k].webhook = "failed" =>
      ~quota.ops[k].incremented /\ ~quota.ops[k].saved

\* C30: within one window the message count, and the number of exchanges
\* accepted, never exceed MAX_MESSAGES_PER_WINDOW.
RateLimitNeverExceeded ==
  /\ quota.message_count <= MAX_MESSAGES_PER_WINDOW
  /\ quota.accepted <= MAX_MESSAGES_PER_WINDOW

====
